---- MODULE Spec2Model ----
(***************************************************************************)
(* Model of the Metabolic Atlas 3D network viewer                          *)
(* (src/src/met-atlas-viewer.js with the helpers of src/unnamed/part_005   *)
(* and src/unnamed/part_004, and the camera controls of                    *)
(* src/unnamed/part_006).                                                  *)
(*                                                                         *)
(* Conventions.  JavaScript indices are 0-based and are kept 0-based in    *)
(* every value the program stores (node index, connection index, selected  *)
(* items); TLA+ sequences are 1-based, so element i of a JavaScript array  *)
(* a is a[i + 1] here.  A color buffer is a sequence of RGB triples, one   *)
(* per 3-byte slot.  `undefined` is Undefined (-1) for index-valued        *)
(* variables and the empty tuple for an absent color.                      *)
(***************************************************************************)
EXTENDS Integers, Sequences, FiniteSets, TLC

VARIABLES
  nodeInfo,        \* let nodeInfo = []           (viewer.js:130)
  nodeMesh,        \* let nodeMesh                (viewer.js:85)
  connectionMesh,  \* let connectionMesh          (viewer.js:86)
  indexScene,      \* indexScene.children         (viewer.js:76)
  selected,        \* const selected = []         (viewer.js:93)
  hoverNode,       \* let hoverNode               (viewer.js:96)
  flyTarget,       \* const flyTarget             (viewer.js:60)
  camera,          \* camera position / up / view offset (viewer.js:51)
  renderTarget,    \* renderer's current render target
  pending,         \* setData calls whose texture loads are outstanding
  nCalls,          \* number of setData calls made so far
  effects,         \* what the latest handler emitted, in order
  lastCall,        \* the latest handler and its arguments
  lastFrame,       \* what the latest visible-scene render was drawn with
  graph,           \* let graph = new Group()    (viewer.js:81) and whether
                   \* the scene holds it
  promises,        \* state of the promise each setData call returned
  indexSprites,    \* index sprite textures whose load is outstanding
  now,             \* new Date().getTime(), in milliseconds
  cameraControls,  \* let cameraControls         (viewer.js:127)
  lastAnimate,     \* what the latest animate() frame ran
  nodeSelectCallback, \* let nodeSelectCallback (viewer.js:53): whether a
                   \* callback is registered
  initialData,     \* let initialData = null     (viewer.js:133)
  showGenes,       \* let showGenes = true       (viewer.js:135)
  showLabels,      \* let showLabels = true      (viewer.js:119)
  labelDistance,   \* let labelDistance = 200    (viewer.js:120)
  labels,          \* labels.children            (viewer.js:115): the labels
                   \* attached, each the label of a node of a setData call
  updateCameraCallback, \* let updateCameraCallback (viewer.js:53): whether
                   \* a callback is registered
  animationId,     \* let animationId           (viewer.js:138)
  frameRequests,   \* the requestAnimationFrame requests outstanding, which
                   \* the specification of dispose() follows
  disposed,        \* dispose() has set renderer, scene and camera to null
  input,           \* input of the pure-function specifications
  output           \* result of the pure-function specifications

\* the camera-update callback and the animation loop
loopVars == <<updateCameraCallback, animationId, frameRequests, disposed>>

vars == <<nodeInfo, nodeMesh, connectionMesh, indexScene, selected, hoverNode,
          flyTarget, camera, renderTarget, pending, nCalls, effects, lastCall,
          lastFrame, graph, promises, indexSprites, now, cameraControls,
          lastAnimate, nodeSelectCallback, initialData, showGenes, showLabels,
          labelDistance, labels, loopVars, input, output>>

viewerVars == <<nodeInfo, nodeMesh, connectionMesh, indexScene, selected,
                hoverNode, flyTarget, camera, renderTarget, pending, nCalls,
                effects, lastCall, lastFrame, graph, promises, indexSprites,
                now, cameraControls, lastAnimate, nodeSelectCallback,
                initialData, showGenes, showLabels, labelDistance, labels,
                loopVars>>

\* the callback registration, the stored first data set and the view toggles
viewVars == <<nodeSelectCallback, initialData, showGenes, showLabels,
              labelDistance, labels, loopVars>>

-----------------------------------------------------------------------------
(* Bounds of the model *)

MaxNodes == 2       \* longest node list of the build specification
MaxLinks == 2       \* longest link list of the build specification
MaxCalls == 2       \* setData calls in one behaviour of the viewer
MaxPick == 1        \* largest sprite index the pointer is put over
MaxTicks == 5       \* clock ticks in one behaviour of the fly specification
MaxFocus == 3       \* most nodes of a data set of the focus specification
MaxToggles == 2     \* toggleNodeType calls that reach setData in one behaviour
MaxGroupNodes == 3  \* longest node list of the material-group specification
MaxTextures == 2    \* longest texture-descriptor list of that specification
ByteSpread == 2     \* byte values sampled around 0, 127/128 and 255

-----------------------------------------------------------------------------
(* Values *)

Undefined == -1

Range(s) == {s[k] : k \in 1..Len(s)}

Last(s) == s[Len(s)]

\* defaultColors of the helpers module
nodeDefaultColor == <<255, 255, 255>>
connectionStartColor == <<0, 127, 255>>
connectionEndColor == <<0, 127, 0>>
nodeSelectColor == <<255, 0, 0>>
connectionSelectColor == <<255, 255, 0>>
hoverSelectColor == <<255, 0, 255>>
hoverConnectionColor == <<255, 0, 0>>

\* new Uint8BufferAttribute(array, 3, true): every element is stored in a byte
Uint8(x) == x % 256

Uint8Triple(c) == <<Uint8(c[1]), Uint8(c[2]), Uint8(c[3])>>

Uint8Buffer(colors) == [k \in 1..Len(colors) |-> Uint8Triple(colors[k])]

-----------------------------------------------------------------------------
(* setData, synchronous part: the build of the buffers *)

\* a.g.localeCompare(b.g) for the one-letter group labels of the data sets
GroupOrder == <<"e", "m", "r">>

GroupRank(g) == CHOOSE k \in 1..Len(GroupOrder) : GroupOrder[k] = g

localeCompare(a, b) == GroupRank(a) - GroupRank(b)

\* a sort that puts a node before the nodes of its group that precede it
RECURSIVE SortNodesUnstable(_)
SortNodesUnstable(nodes) ==
  IF nodes = <<>> THEN <<>>
  ELSE LET n == Len(nodes)
           rest == SortNodesUnstable(SubSeq(nodes, 1, n - 1))
           x == nodes[n]
           k == Cardinality({j \in 1..Len(rest) :
                               localeCompare(rest[j].g, x.g) < 0})
       IN SubSeq(rest, 1, k) \o <<x>> \o SubSeq(rest, k + 1, Len(rest))

\* nodes.sort((a, b) => a.g.localeCompare(b.g)): a stable sort
RECURSIVE SortNodes(_)
SortNodes(nodes) ==
  IF nodes = <<>> THEN <<>>
  ELSE LET n == Len(nodes)
           rest == SortNodes(SubSeq(nodes, 1, n - 1))
           x == nodes[n]
           k == Cardinality({j \in 1..Len(rest) :
                               localeCompare(rest[j].g, x.g) <= 0})
       IN SubSeq(rest, 1, k) \o <<x>> \o SubSeq(rest, k + 1, Len(rest))

\* nodeTextures.sort((a, b) => a.group.localeCompare(b.group))
RECURSIVE SortTextures(_)
SortTextures(texs) ==
  IF texs = <<>> THEN <<>>
  ELSE LET n == Len(texs)
           rest == SortTextures(SubSeq(texs, 1, n - 1))
           x == texs[n]
           k == Cardinality({j \in 1..Len(rest) :
                               localeCompare(rest[j].group, x.group) <= 0})
       IN SubSeq(rest, 1, k) \o <<x>> \o SubSeq(rest, k + 1, Len(rest))

\* the index color pushed for node i
IndexColorBroken(i) == <<i \div (256 * 256), (i \div 256) % 256, i % 255>>

IndexColor(i) == <<i \div (256 * 256), (i \div 256) % 256, i % 256>>

\* the record pushed to nodeInfo for node i
NodeRecord(node, i) ==
  [id |-> node.id,
   n |-> node.n,
   pos |-> node.pos,
   color |-> IF node.color # <<>> THEN node.color ELSE nodeDefaultColor,
   to |-> <<>>,
   from |-> <<>>,
   index |-> i,
   group |-> node.g]

\* `id in nodeIndex`
InNodeIndex(nodes, id) == \E k \in 1..Len(nodes) : nodes[k].id = id

\* nodeIndex[id].index: a later node with the same id overwrites the entry
NodeIndexOf(nodes, id) ==
  (CHOOSE k \in 1..Len(nodes) :
     /\ nodes[k].id = id
     /\ \A j \in 1..Len(nodes) : nodes[j].id = id => j <= k) - 1

\* the loop over links; i is the loop counter
RECURSIVE LinkLoopSourceOnly(_, _, _, _)
LinkLoopSourceOnly(links, nodes, i, acc) ==
  IF i >= Len(links) THEN acc
  ELSE LET link == links[i + 1] IN
       IF ~InNodeIndex(nodes, link.s)
       THEN LinkLoopSourceOnly(links, nodes, i + 1,
                               [acc EXCEPT !.warnings = @ + 1])
       ELSE LET next == [acc EXCEPT
                           !.linePositions = @ \o <<<<0, 0, 0>>, <<0, 0, 0>>>>,
                           !.lineColors = @ \o <<connectionStartColor,
                                                 connectionEndColor>>]
            IN LinkLoopSourceOnly(links, nodes, i + 1, next)

RECURSIVE LinkLoop(_, _, _, _)
LinkLoop(links, nodes, i, acc) ==
  IF i >= Len(links) THEN acc
  ELSE LET link == links[i + 1] IN
       IF ~InNodeIndex(nodes, link.s) \/ ~InNodeIndex(nodes, link.t)
       THEN LinkLoop(links, nodes, i + 1, [acc EXCEPT !.warnings = @ + 1])
       ELSE LET si == NodeIndexOf(nodes, link.s)
                ti == NodeIndexOf(nodes, link.t)
                a1 == [acc EXCEPT
                         !.linePositions = @ \o <<nodes[si + 1].pos,
                                                  nodes[ti + 1].pos>>,
                         !.lineColors = @ \o <<connectionStartColor,
                                               connectionEndColor>>,
                         !.nodeInfo[si + 1].to =
                            Append(@, [index |-> i * 2 + 1,
                                       neighbor |-> link.t])]
                a2 == [a1 EXCEPT
                         !.nodeInfo[ti + 1].from =
                            Append(@, [index |-> i * 2,
                                       neighbor |-> link.s])]
            IN LinkLoop(links, nodes, i + 1, a2)

\* everything the synchronous part of setData builds from graphData
Build(graphData) ==
  LET nodes == SortNodes(graphData.nodes)
      info == [k \in 1..Len(nodes) |-> NodeRecord(nodes[k], k - 1)]
      linked == LinkLoop(graphData.links, nodes, 0,
                         [nodeInfo |-> info, linePositions |-> <<>>,
                          lineColors |-> <<>>, warnings |-> 0])
  IN [nodes |-> nodes,
      nodeInfo |-> linked.nodeInfo,
      nodeColors |-> Uint8Buffer([k \in 1..Len(nodes) |-> info[k].color]),
      indexColors |-> Uint8Buffer([k \in 1..Len(nodes) |-> IndexColor(k - 1)]),
      linePositions |-> linked.linePositions,
      lineColors |-> Uint8Buffer(linked.lineColors),
      warnings |-> linked.warnings]

\* the value of `last` once undefined was added to it
NaN == -2

\* nodeGroups[group]: the number of nodes of the group, undefined if none
NodeGroupCount(nodes, group) ==
  LET c == Cardinality({k \in 1..Len(nodes) : nodes[k].g = group})
  IN IF c = 0 THEN Undefined ELSE c

\* nodeTextures.forEach((texture, i) => { ... addGroup(last, current, i);
\* last += current }) over the sorted nodes and the sorted descriptors
RECURSIVE MaterialGroupLoop(_, _, _, _, _)
MaterialGroupLoop(nodeTextures, nodes, i, last, acc) ==
  IF i >= Len(nodeTextures) THEN acc
  ELSE LET current == NodeGroupCount(nodes, nodeTextures[i + 1].group)
       IN MaterialGroupLoop(
            nodeTextures, nodes, i + 1,
            IF last = NaN \/ current = Undefined THEN NaN
            ELSE last + current,
            Append(acc, [start |-> last, count |-> current,
                         materialIndex |-> i]))

\* the groups of nodeGeometry (and indexGeometry) after the build
MaterialGroups(graphData, nodeTextures) ==
  MaterialGroupLoop(SortTextures(nodeTextures), SortNodes(graphData.nodes),
                    0, 0, <<>>)

-----------------------------------------------------------------------------
(* Recoloring: setSpriteColor, setConnectionsColor, select *)

\* array.includes(x)
Includes(s, x) == \E k \in 1..Len(s) : s[k] = x

\* `!nodeInfo[spriteNum]` is false: a record exists at that index
HasNode(i) == i >= 0 /\ i < Len(nodeInfo)

\* a write to a typed array; an index outside the array is ignored
WriteSlot(buf, slot, c) ==
  IF slot + 1 \in DOMAIN buf
  THEN [buf EXCEPT ![slot + 1] = Uint8Triple(c)]
  ELSE buf

NoMesh == [defined |-> FALSE, call |-> 0, color |-> <<>>, needsUpdate |-> FALSE]

\* The part of the viewer a handler can change, threaded through the
\* operators below; threw is set when a statement raised a TypeError, after
\* which the rest of the handler does not run.
ViewerState ==
  [selected |-> selected, hoverNode |-> hoverNode, nodeMesh |-> nodeMesh,
   connectionMesh |-> connectionMesh, flyTarget |-> flyTarget,
   camera |-> camera, renderTarget |-> renderTarget,
   cameraControls |-> cameraControls, effects |-> <<>>, threw |-> FALSE]

setSpriteColorNoFlag(v, spriteNum, color) ==
  IF v.threw \/ ~HasNode(spriteNum) THEN v
  ELSE IF ~v.nodeMesh.defined THEN [v EXCEPT !.threw = TRUE]
  ELSE LET c == IF color # <<>> THEN color
                ELSE IF Includes(v.selected, spriteNum) THEN nodeSelectColor
                ELSE nodeInfo[spriteNum + 1].color
       IN [v EXCEPT !.nodeMesh.color = WriteSlot(@, spriteNum, c)]

setSpriteColor(v, spriteNum, color) ==
  IF v.threw \/ ~HasNode(spriteNum) THEN v
  ELSE IF ~v.nodeMesh.defined THEN [v EXCEPT !.threw = TRUE]
  ELSE LET c == IF color # <<>> THEN color
                ELSE IF Includes(v.selected, spriteNum) THEN nodeSelectColor
                ELSE nodeInfo[spriteNum + 1].color
       IN [v EXCEPT !.nodeMesh.color = WriteSlot(@, spriteNum, c),
                    !.nodeMesh.needsUpdate = TRUE]

\* one forEach over a connection list: the start color goes to slot
\* conn.index + startOffset, the end color to the slot after it
RECURSIVE PaintConnections(_, _, _, _, _, _)
PaintConnections(buf, conns, k, startOffset, cStart, cEnd) ==
  IF k > Len(conns) THEN buf
  ELSE LET slot == conns[k].index + startOffset
           b1 == WriteSlot(buf, slot, cStart)
           b2 == WriteSlot(b1, slot + 1, cEnd)
       IN PaintConnections(b2, conns, k + 1, startOffset, cStart, cEnd)

setConnectionsColor(v, spriteNum, color) ==
  IF v.threw \/ ~HasNode(spriteNum) THEN v
  ELSE LET node == nodeInfo[spriteNum + 1]
           isSel == Includes(v.selected, spriteNum)
           cStart == IF color # <<>> THEN color
                     ELSE IF isSel THEN connectionSelectColor
                     ELSE connectionStartColor
           cEnd == IF color # <<>> THEN color
                   ELSE IF isSel THEN connectionSelectColor
                   ELSE connectionEndColor
           b1 == PaintConnections(v.connectionMesh.color, node.from, 1, 0,
                                  cStart, cEnd)
           b2 == PaintConnections(b1, node.to, 1, -1, cStart, cEnd)
       IN [v EXCEPT !.connectionMesh.color = b2,
                    !.connectionMesh.needsUpdate = TRUE]

\* while (selected.length > 0) { item = selected.pop(); ... }
RECURSIVE ResetSelected(_)
ResetSelected(v) ==
  IF v.threw \/ v.selected = <<>> THEN v
  ELSE LET item == Last(v.selected)
           v1 == [v EXCEPT !.selected = SubSeq(@, 1, Len(@) - 1)]
       IN ResetSelected(
            setConnectionsColor(setSpriteColor(v1, item, <<>>), item, <<>>))

\* `if (hoverNode)`: undefined and 0 are both falsy
Truthy(x) == x # Undefined /\ x # 0

\* items.forEach((id) => { ... }) of select
RECURSIVE PaintItems(_, _, _, _)
PaintItems(v, items, k, persistent) ==
  IF v.threw \/ k > Len(items) THEN v
  ELSE LET id == items[k]
           v1 == IF persistent
                 THEN [v EXCEPT !.selected = Append(@, id)]
                 ELSE [v EXCEPT !.hoverNode = id]
           v2 == setSpriteColor(v1, id, IF persistent THEN nodeSelectColor
                                        ELSE hoverSelectColor)
           v3 == setConnectionsColor(v2, id,
                                     IF persistent THEN connectionSelectColor
                                     ELSE hoverConnectionColor)
       IN PaintItems(v3, items, k + 1, persistent)

UndefinedRecord == [id |-> "undefined"]

\* nodeInfo[i], which is undefined outside the table
RecordAt(i) == IF HasNode(i) THEN nodeInfo[i + 1] ELSE UndefinedRecord

SelectEvent(items) ==
  [type |-> "select", items |-> [k \in 1..Len(items) |-> RecordAt(items[k])]]

\* container.dispatchEvent(selectEvent)
Dispatch(v, event) ==
  IF v.threw THEN v ELSE [v EXCEPT !.effects = Append(@, event)]

selectKeepOld(v, items, persistent) ==
  LET v1 == v
      v2 == PaintItems(v1, items, 1, persistent)
  IN IF persistent THEN Dispatch(v2, SelectEvent(items)) ELSE v2

selectHoverEvent(v, items, persistent) ==
  LET v1 == IF persistent THEN ResetSelected(v)
            ELSE IF Truthy(v.hoverNode)
            THEN setConnectionsColor(
                   setSpriteColor(v, v.hoverNode, <<>>), v.hoverNode, <<>>)
            ELSE v
      v2 == PaintItems(v1, items, 1, persistent)
  IN IF items # <<>> THEN Dispatch(v2, SelectEvent(items)) ELSE v2

select(v, items, persistent) ==
  LET v1 == IF persistent THEN ResetSelected(v)
            ELSE IF Truthy(v.hoverNode)
            THEN setConnectionsColor(
                   setSpriteColor(v, v.hoverNode, <<>>), v.hoverNode, <<>>)
            ELSE v
      v2 == PaintItems(v1, items, 1, persistent)
  IN IF persistent THEN Dispatch(v2, SelectEvent(items)) ELSE v2

-----------------------------------------------------------------------------
(* selectBy and the frustum-fit focus *)

\* The string-valued attributes of a node record.  A filter value is a
\* string; record[key] of any other key (index, pos, color, connections,
\* label, or a key the record does not have, such as g) is a number, an
\* object or undefined and equals no string.
StringKeys == {"id", "n", "group"}

AttributeOfNameForGroup(record, key) ==
  CASE key = "id" -> record.id
    [] key = "n" -> record.n
    [] key = "group" -> record.n

AttributeOf(record, key) ==
  CASE key = "id" -> record.id
    [] key = "n" -> record.n
    [] key = "group" -> record.group

\* if (!Array.isArray(filter[key])) filter[key] = [filter[key]]
AcceptedValues(entry) == IF entry.isArray THEN entry.value ELSE <<entry.value>>

\* the callback of nodeInfo.filter: the loop over Object.keys(filter)
RECURSIVE MatchesAllKeys(_, _, _)
MatchesAllKeys(record, filter, k) ==
  IF k > Len(filter) THEN TRUE
  ELSE IF filter[k].key \in StringKeys
          /\ Includes(AcceptedValues(filter[k]),
                      AttributeOf(record, filter[k].key))
       THEN MatchesAllKeys(record, filter, k + 1)
       ELSE FALSE

RECURSIVE Matches(_, _, _)
Matches(record, filter, k) ==
  IF k > Len(filter) THEN FALSE
  ELSE IF filter[k].key \in StringKeys
          /\ Includes(AcceptedValues(filter[k]),
                      AttributeOf(record, filter[k].key))
       THEN TRUE
       ELSE Matches(record, filter, k + 1)

\* nodeInfo.filter(...).map((i) => i.index)
RECURSIVE MatchingItems(_, _)
MatchingItems(filter, k) ==
  IF k > Len(nodeInfo) THEN <<>>
  ELSE IF Matches(nodeInfo[k], filter, 1)
       THEN <<nodeInfo[k].index>> \o MatchingItems(filter, k + 1)
       ELSE MatchingItems(filter, k + 1)

\* camera constants of the viewer
near == 1
far == 10000
defaultCameraDistance == 50
cameraStep == 50
maxCameraRange == 3000

RECURSIVE SumPos(_, _)
SumPos(items, k) ==
  IF k > Len(items) THEN <<0, 0, 0>>
  ELSE LET r == SumPos(items, k + 1)
           b == nodeInfo[items[k] + 1].pos
       IN <<r[1] + b[1], r[2] + b[2], r[3] + b[3]>>

\* midPoint(items).  The data sets keep every coordinate a multiple of the
\* least common multiple of the possible item counts, so the division is
\* exact.
midPoint(items) ==
  LET s == SumPos(items, 1)
  IN <<s[1] \div Len(items), s[2] \div Len(items), s[3] \div Len(items)>>

Abs(x) == IF x < 0 THEN -x ELSE x

\* Math.sqrt(p.x * p.x + p.y * p.y + p.z * p.z) for a point on a coordinate
\* axis, which is where the data sets of the model put their nodes
AxisLength(p) == Abs(p[1]) + Abs(p[2]) + Abs(p[3])

\* p + (p / l) * cameraDistance, componentwise; p / l is -1, 0 or 1 on an axis
Along(p, l, cameraDistance) ==
  <<p[1] + (p[1] \div l) * cameraDistance,
    p[2] + (p[2] \div l) * cameraDistance,
    p[3] + (p[3] \div l) * cameraDistance>>

\* frustum.containsPoint(pos) for a camera at cam on a coordinate axis looking
\* at the origin and a point on the same axis: the point is on the view axis,
\* inside the four side planes exactly when it is in front of the camera, so
\* only its depth decides
ContainsPoint(cam, pos) ==
  LET l == AxisLength(cam)
      depth == ((cam[1] - pos[1]) * cam[1] + (cam[2] - pos[2]) * cam[2]
                + (cam[3] - pos[3]) * cam[3]) \div l
  IN depth >= near /\ depth <= far

isInCamera(items, cam) ==
  \A k \in 1..Len(items) : ContainsPoint(cam, nodeInfo[items[k] + 1].pos)

\* frustum.containsPoint(pos) for the test camera of getNodesWithin: at cam
\* on a coordinate axis, looking at the origin, with the far plane at
\* distance.  A point whose depth is outside [near, distance] is outside
\* whatever the side planes are; a point on the view axis is inside them.
ContainsPointWithin(cam, pos, distance) ==
  LET l == AxisLength(cam)
      depth == ((cam[1] - pos[1]) * cam[1] + (cam[2] - pos[2]) * cam[2]
                + (cam[3] - pos[3]) * cam[3]) \div l
  IN depth >= near /\ depth <= distance

\* getNodesWithin(distance) with the camera at position
getNodesWithin(position, distance) ==
  {i \in 0..(Len(nodeInfo) - 1) :
     ContainsPointWithin(position, nodeInfo[i + 1].pos, distance)}

\* labelNode(node): the label of nodeInfo[node], created by the latest
\* setData call
labelNode(node) == [call |-> nCalls, index |-> node]

renderLabelsKeepOld(position) ==
  IF showLabels
  THEN labels \cup {labelNode(node) :
                      node \in getNodesWithin(position, labelDistance)}
  ELSE labels

\* the label part of render(): with labels enabled the label group is
\* cleared and the labels of the nodes within the label distance are added
renderLabels(position) ==
  IF showLabels
  THEN {labelNode(node) : node \in getNodesWithin(position, labelDistance)}
  ELSE labels

\* renderer.render(scene, camera) uploads the color attribute of a mesh in
\* the scene whose needsUpdate was set since the last upload
Upload(mesh, inScene) ==
  IF inScene /\ mesh.defined THEN [mesh EXCEPT !.needsUpdate = FALSE]
  ELSE mesh

RECURSIVE StepBack(_, _, _, _, _)

\* the loop stepping once more when the distance equals the bound
StepBackInclusive(items, p, l, cameraDistance, maxDistance) ==
  IF ~isInCamera(items, Along(p, l, cameraDistance))
     /\ cameraDistance <= maxDistance
  THEN StepBack(items, p, l, cameraDistance + cameraStep, maxDistance)
  ELSE cameraDistance

\* the while loop of focusOnItems
StepBack(items, p, l, cameraDistance, maxDistance) ==
  IF ~isInCamera(items, Along(p, l, cameraDistance))
     /\ cameraDistance < maxDistance
  THEN StepBack(items, p, l, cameraDistance + cameraStep, maxDistance)
  ELSE cameraDistance

\* setFlyTarget(position, up, target)
setFlyTargetTo(v, position, up, target) ==
  IF v.threw THEN v
  ELSE [v EXCEPT !.flyTarget =
          [active |-> TRUE,
           start |-> v.camera.position,
           startUp |-> v.camera.up,
           end |-> position,
           target |-> target,
           targetUp |-> up,
           startTime |-> now],
        !.effects = Append(@, [type |-> "flyTo", end |-> position])]

\* setFlyTarget(position) with the default up and target
setFlyTarget(v, position) ==
  setFlyTargetTo(v, position, <<0, 1, 0>>, <<0, 0, 0>>)

FocusPosition(items) ==
  LET p == midPoint(items)
      l == AxisLength(p)
      d == IF Len(items) > 1
           THEN StepBack(items, p, l, defaultCameraDistance,
                         maxCameraRange - l)
           ELSE defaultCameraDistance
  IN Along(p, l, d)

focusOnItems(v, items) ==
  IF v.threw THEN v
  ELSE IF Len(items) > 0 THEN setFlyTarget(v, FocusPosition(items))
  ELSE v

selectByFocusFirst(v, filter) ==
  LET items == MatchingItems(filter, 1)
  IN select(focusOnItems(v, items), items, TRUE)

selectBy(v, filter) ==
  LET items == MatchingItems(filter, 1)
  IN focusOnItems(select(v, items, TRUE), items)

-----------------------------------------------------------------------------
(* Picking *)

Background == <<255, 255, 255>>
backgroundId == 16777215

IndexTarget == "indexTarget"
DefaultTarget == "null"

\* a == b with a boolean on the left and a number on the right: the boolean
\* is converted to 0 or 1
BoolEqualsNumber(b, n) == (IF b THEN 1 ELSE 0) = n

\* ((pixelBuffer[2] == pixelBuffer[1]) == pixelBuffer[0]) == 255
ChannelsAll255(px) == px[3] = 255 /\ px[2] = 255 /\ px[1] = 255

ChainedEquality(px) ==
  BoolEqualsNumber(BoolEqualsNumber(px[3] = px[2], px[1]), 255)

\* (pixelBuffer[0] << 16) | (pixelBuffer[1] << 8) | pixelBuffer[2]
Decode(px) == px[1] * 65536 + px[2] * 256 + px[3]

\* pickInScene for the pixel the index render produced; returned is false on
\* the path that returns no value
pickInSceneNoBackground(v, pixel) ==
  LET id == Decode(pixel)
      v1 == [v EXCEPT !.camera.viewOffset = FALSE,
                      !.renderTarget = DefaultTarget]
  IN [v |-> v1, returned |-> TRUE, items |-> <<id>>]

pickInScene(v, pixel) ==
  LET v1 == [v EXCEPT !.camera.viewOffset = TRUE,
                      !.renderTarget = IndexTarget]
  IN IF ChainedEquality(pixel)
     THEN [v |-> v1, returned |-> FALSE, items |-> <<>>]
     ELSE LET id == Decode(pixel)
              v2 == [v1 EXCEPT !.camera.viewOffset = FALSE,
                               !.renderTarget = DefaultTarget]
          IN IF id = backgroundId
             THEN [v |-> v2, returned |-> TRUE, items |-> <<>>]
             ELSE [v |-> v2, returned |-> TRUE, items |-> <<id>>]

\* items.forEach((id) => { ... infoBox.innerHTML = nodeInfo[id].n }): reading
\* .n of a missing record throws
InfoBoxThrows(items) == \E k \in 1..Len(items) : ~HasNode(items[k])

onMouseMove(v, pixel) ==
  LET pick == pickInScene(v, pixel)
  IN IF ~pick.returned \/ InfoBoxThrows(pick.items)
     THEN [pick.v EXCEPT !.threw = TRUE]
     ELSE select(pick.v, pick.items, FALSE)

\* nodeSelectCallback(nodeInfo[items[0]])
CallNodeSelect(v, item) ==
  IF v.threw THEN v
  ELSE [v EXCEPT !.effects = Append(@, [type |-> "nodeSelect",
                                        items |-> <<RecordAt(item)>>])]

onMouseClickCallbackFirst(v, pixel) ==
  LET pick == pickInScene(v, pixel)
  IN IF ~pick.returned THEN [pick.v EXCEPT !.threw = TRUE]
     ELSE IF Len(pick.items) > 0
     THEN LET v1 == IF nodeSelectCallback /\ Len(pick.items) = 1
                    THEN CallNodeSelect(pick.v, pick.items[1])
                    ELSE pick.v
          IN select(v1, pick.items, TRUE)
     ELSE pick.v

\* a click that selects whatever the pick returned
onMouseClickAlwaysSelect(v, pixel) ==
  LET pick == pickInScene(v, pixel)
  IN IF ~pick.returned THEN [pick.v EXCEPT !.threw = TRUE]
     ELSE LET v1 == select(pick.v, pick.items, TRUE)
          IN IF nodeSelectCallback /\ Len(pick.items) = 1
             THEN CallNodeSelect(v1, pick.items[1])
             ELSE v1

onMouseClick(v, pixel) ==
  LET pick == pickInScene(v, pixel)
  IN IF ~pick.returned THEN [pick.v EXCEPT !.threw = TRUE]
     ELSE IF Len(pick.items) > 0
     THEN LET v1 == select(pick.v, pick.items, TRUE)
          IN IF nodeSelectCallback /\ Len(pick.items) = 1
             THEN CallNodeSelect(v1, pick.items[1])
             ELSE v1
     ELSE pick.v

resetSelection(v) ==
  LET v1 == select(v, <<>>, TRUE)
  IN IF v1.threw THEN v1
     ELSE [v1 EXCEPT !.cameraControls.target = <<0, 0, 0>>]

-----------------------------------------------------------------------------
(* Camera placement, the fly-to transition and the per-frame callback.
   Vectors are integer triples; an omitted argument is the empty tuple. *)

runTime == 750
minDistance == 50
maxDistance == 5000

Add(a, b) == <<a[1] + b[1], a[2] + b[2], a[3] + b[3]>>

Sub(a, b) == <<a[1] - b[1], a[2] - b[2], a[3] - b[3]>>

LengthSq(a) == a[1] * a[1] + a[2] * a[2] + a[3] * a[3]

\* cameraDefault: the target is a copy of the camera's up vector
cameraDefault ==
  [position |-> <<0, 0, 3000>>, up |-> <<0, 1, 0>>, target |-> <<0, 1, 0>>]

\* setCamera implemented as a fly-to transition
setCameraByFlight(v, position, up, target) ==
  setFlyTargetTo(v, position,
                 IF up # <<>> THEN up ELSE v.camera.up,
                 IF target # <<>> THEN target ELSE v.cameraControls.target)

\* setCamera(position, up, target); `if (up)` and `if (target)` skip an
\* omitted argument, and copying to the target of controls that are not
\* installed throws
setCamera(v, position, up, target) ==
  IF v.threw THEN v
  ELSE LET v1 == [v EXCEPT !.camera.position = position,
                           !.camera.up = IF up # <<>> THEN up ELSE @]
       IN IF target = <<>> THEN v1
          ELSE IF ~v1.cameraControls.installed THEN [v1 EXCEPT !.threw = TRUE]
          ELSE [v1 EXCEPT !.cameraControls.target = target]

resetCamera(v) ==
  setFlyTargetTo(v, cameraDefault.position, cameraDefault.up,
                 cameraDefault.target)

\* a + (b - a) * p with p = elapsed / runTime, componentwise; the positions
\* and times of the model keep the products multiples of runTime
Interpolate(a, b, elapsed) ==
  [i \in 1..3 |-> a[i] + ((b[i] - a[i]) * elapsed) \div runTime]

\* the frame log: flyUpdate ran and placed the camera
FlyLogged(v) ==
  [v EXCEPT !.effects = Append(@, [type |-> "flyUpdate",
                                   position |-> v.camera.position,
                                   up |-> v.camera.up])]

\* flyUpdate() that ends the transition without placing the camera
flyUpdateNoSnap(v) ==
  LET f == v.flyTarget
      t == now
  IN IF t >= f.startTime + runTime
     THEN FlyLogged([v EXCEPT !.flyTarget.active = FALSE])
     ELSE FlyLogged(
            setCamera(v, Interpolate(f.start, f.end, t - f.startTime),
                      Interpolate(f.startUp, f.targetUp, t - f.startTime),
                      f.target))

\* flyUpdate() that compares the elapsed time with a shorter duration
flyUpdateEarly(v) ==
  LET f == v.flyTarget
      t == now
  IN IF t >= f.startTime + (runTime \div 3)
     THEN FlyLogged(setCamera([v EXCEPT !.flyTarget.active = FALSE],
                              f.end, f.targetUp, f.target))
     ELSE FlyLogged(
            setCamera(v, Interpolate(f.start, f.end, t - f.startTime),
                      Interpolate(f.startUp, f.targetUp, t - f.startTime),
                      f.target))

flyUpdate(v) ==
  LET f == v.flyTarget
      t == now
  IN IF t >= f.startTime + runTime
     THEN FlyLogged(setCamera([v EXCEPT !.flyTarget.active = FALSE],
                              f.end, f.targetUp, f.target))
     ELSE FlyLogged(
            setCamera(v, Interpolate(f.start, f.end, t - f.startTime),
                      Interpolate(f.startUp, f.targetUp, t - f.startTime),
                      f.target))

\* Vector3.setLength: normalize() divides by length() || 1, so the zero
\* vector stays the zero vector; a vector on a coordinate axis keeps its
\* direction
SetLength(e, len) ==
  CASE e = <<0, 0, 0>> -> e
    [] e[2] = 0 /\ e[3] = 0 /\ e[1] # 0 ->
         <<IF e[1] > 0 THEN len ELSE -len, 0, 0>>
    [] e[1] = 0 /\ e[3] = 0 /\ e[2] # 0 ->
         <<0, IF e[2] > 0 THEN len ELSE -len, 0>>
    [] e[1] = 0 /\ e[2] = 0 /\ e[3] # 0 ->
         <<0, 0, IF e[3] > 0 THEN len ELSE -len>>

\* checkDistances() with noZoom and noPan at their default false; the result
\* is the eye vector and the camera position
checkDistances(target, eye, position) ==
  LET far1 == LengthSq(eye) > maxDistance * maxDistance
      e1 == IF far1 THEN SetLength(eye, maxDistance) ELSE eye
      p1 == IF far1 THEN Add(target, e1) ELSE position
      near2 == LengthSq(e1) < minDistance * minDistance
      e2 == IF near2 THEN SetLength(e1, minDistance) ELSE e1
      p2 == IF near2 THEN Add(target, e2) ELSE p1
  IN [eye |-> e2, position |-> p2]

\* update() of the camera controls with no pointer, wheel or touch input
\* outstanding (moveCurr = movePrev, zoomEnd = zoomStart, panEnd = panStart,
\* lastAngle = 0), so that rotateCamera, zoomCamera and panCamera leave the
\* eye vector as it is; a change event is dispatched when the camera has
\* moved since the last one
update(v) ==
  LET target == v.cameraControls.target
      eye == Sub(v.camera.position, target)
      moved(position) ==
        LengthSq(Sub(v.cameraControls.lastPosition, position)) > 0
      updated(checked) ==
        [v EXCEPT !.camera.position = checked.position,
                  !.cameraControls.lastPosition =
                     IF moved(checked.position) THEN checked.position ELSE @,
                  !.effects =
                     IF moved(checked.position)
                     THEN @ \o <<[type |-> "update"], [type |-> "change"]>>
                     ELSE Append(@, [type |-> "update"])]
  IN CHOOSE r \in {updated(checked) :
                     checked \in {checkDistances(target, eye,
                                                 Add(target, eye))}} : TRUE

\* animate() with the fly update in an else-if chain before the controls
animateExclusive(v) ==
  CHOOSE r \in {IF v.flyTarget.active THEN flyUpdate(v)
                ELSE IF v.cameraControls.installed THEN update(v)
                ELSE [v EXCEPT !.effects = Append(@, [type |-> "render"])]} :
    TRUE

\* animate(): the fly update if a transition is active, then the controls'
\* update if controls are installed, otherwise render(), which returns at
\* once because no controls are installed
animate(v) ==
  LET controls(v1) ==
        IF v1.cameraControls.installed THEN update(v1)
        ELSE [v1 EXCEPT !.effects = Append(@, [type |-> "render"])]
  IN CHOOSE r \in {controls(v1) :
                     v1 \in {IF v.flyTarget.active THEN flyUpdate(v)
                             ELSE v}} : TRUE

-----------------------------------------------------------------------------
(* Data sets the viewer is loaded with.  Nodes lie on the positive x axis at
   multiples of 60. *)

Node(id, x, g, color) ==
  [id |-> id, pos |-> <<x, 0, 0>>, g |-> g, n |-> id, color |-> color]

Link(s, t) == [s |-> s, t |-> t]

\* two nodes of group m and three others, given out of group order; the
\* second link names a node that is not in the list
GraphFive ==
  [graphData |->
     [nodes |-> <<Node("a", 60, "m", <<>>), Node("b", 120, "e", <<>>),
                  Node("c", 180, "e", <<10, 20, 30>>),
                  Node("d", 240, "m", <<>>), Node("e", 300, "e", <<>>)>>,
      links |-> <<Link("a", "b"), Link("b", "z"), Link("d", "c")>>],
   nodeTextures |-> <<[group |-> "m"], [group |-> "e"]>>]

GraphTwo ==
  [graphData |->
     [nodes |-> <<Node("p", 360, "m", <<>>), Node("q", 60, "m", <<>>)>>,
      links |-> <<Link("p", "q")>>],
   nodeTextures |-> <<[group |-> "m"]>>]

DataSets == <<GraphFive, GraphTwo>>

\* filters given to selectBy: one or two keys, scalar or list values
FilterEntries ==
  {[key |-> "group", value |-> "m", isArray |-> FALSE],
   [key |-> "group", value |-> <<"m">>, isArray |-> TRUE],
   [key |-> "group", value |-> <<"r", "e">>, isArray |-> TRUE],
   [key |-> "g", value |-> <<"m">>, isArray |-> TRUE],
   [key |-> "id", value |-> <<"d", "b">>, isArray |-> TRUE],
   [key |-> "n", value |-> "q", isArray |-> FALSE]}

Filters ==
  {<<e>> : e \in FilterEntries}
  \cup {<<pair[1], pair[2]>> :
          pair \in {q \in FilterEntries \X FilterEntries :
                      \/ (q[1].key = "g" /\ q[2].key = "id")
                      \/ (q[1].key = "id" /\ q[2].value = "m")}}

-----------------------------------------------------------------------------
(* The viewer *)

NoFlyTarget ==
  [active |-> FALSE, start |-> <<>>, startUp |-> <<>>, end |-> <<>>,
   target |-> <<>>, targetUp |-> <<>>, startTime |-> Undefined]

\* the empty group the viewer is constructed with; it is not in the scene
NoGraph == [call |-> 0, connections |-> FALSE, nodeMeshes |-> <<>>,
            inScene |-> FALSE]

NoFrame == [ran |-> FALSE, fly |-> FALSE, update |-> FALSE, render |-> FALSE,
            elapsed |-> 0, flyPosition |-> <<>>, flyUp |-> <<>>]

\* STATE of the camera controls
ControlsState == [NONE |-> -1, ROTATE |-> 0, ZOOM |-> 1, PAN |-> 2,
          TOUCH_ROTATE |-> 3, TOUCH_ZOOM_PAN |-> 4]

\* the internals of new camera controls that the pointer, key, touch and
\* wheel listeners use: the state, the accumulators, all Vector2 at (0, 0),
\* and what mousewheelReset() sets (counter2 = null); timeouts is the number
\* of setTimeout callbacks of mousewheelContinue that have not run yet and
\* keydownListeners the number of keydown listeners the controls have
\* registered on the window
Internals ==
  [state |-> ControlsState.NONE, prevState |-> ControlsState.NONE,
   movePrev |-> <<0, 0>>, moveCurr |-> <<0, 0>>,
   zoomStart |-> <<0, 0>>, zoomEnd |-> <<0, 0>>,
   touchZoomDistanceStart |-> 0, touchZoomDistanceEnd |-> 0,
   panStart |-> <<0, 0>>, panEnd |-> <<0, 0>>,
   marker |-> TRUE, counter1 |-> 0, counter2 |-> Undefined, timeouts |-> 0,
   keydownListeners |-> 1]

\* initialData = null; otherwise the data set of the first setData call and
\* the node type a toggle has filtered out of it
NoData == [set |-> 0, without |-> ""]

NoCall == [op |-> "none", filter |-> <<>>, items |-> <<>>, threw |-> FALSE]

\* the constructor's values of everything but the node table and the
\* camera controls
InitOther ==
  /\ nodeMesh = NoMesh
  /\ connectionMesh = NoMesh
  /\ indexScene = <<>>
  /\ selected = <<>>
  /\ hoverNode = Undefined
  /\ flyTarget = NoFlyTarget
  /\ camera = [position |-> <<0, 0, 3000>>, up |-> <<0, 1, 0>>,
               viewOffset |-> FALSE]
  /\ renderTarget = DefaultTarget
  /\ pending = {}
  /\ nCalls = 0
  /\ effects = <<>>
  /\ lastCall = NoCall
  /\ lastFrame = [drawn |-> FALSE, viewOffset |-> FALSE,
                  target |-> DefaultTarget]
  /\ graph = NoGraph
  /\ promises = <<>>
  /\ indexSprites = {}
  /\ now = 0
  /\ lastAnimate = NoFrame
  /\ nodeSelectCallback = FALSE
  /\ initialData = NoData
  /\ showGenes = TRUE
  /\ showLabels = TRUE
  /\ labelDistance = 200
  /\ labels = {}
  /\ updateCameraCallback = FALSE
  /\ animationId = 1
  /\ frameRequests = {[id |-> 1, callback |-> "animate"]}
  /\ disposed = FALSE

InitState ==
  /\ nodeInfo = <<>>
  /\ InitOther

\* the viewer as its constructor returns it: the controls are installed, and
\* the update() their constructor runs has recorded the camera position
InitViewer ==
  /\ InitState
  /\ cameraControls = [installed |-> TRUE, target |-> <<0, 0, 0>>,
                       lastPosition |-> <<0, 0, 3000>>] @@ Internals

Init ==
  /\ InitViewer
  /\ input = <<>>
  /\ output = <<>>

\* the handler has run and left the viewer as v; what it did to the
\* animation loop is stated apart
Handled(v, call) ==
  /\ selected' = v.selected
  /\ hoverNode' = v.hoverNode
  /\ nodeMesh' = v.nodeMesh
  /\ connectionMesh' = v.connectionMesh
  /\ flyTarget' = v.flyTarget
  /\ camera' = v.camera
  /\ renderTarget' = v.renderTarget
  /\ cameraControls' = v.cameraControls
  /\ effects' = v.effects
  /\ lastCall' = [call EXCEPT !.threw = v.threw]
  /\ UNCHANGED <<nodeInfo, indexScene, pending, nCalls, lastFrame, graph,
                 promises, indexSprites, now, lastAnimate, input, output,
                 nodeSelectCallback, initialData, showGenes, showLabels,
                 labelDistance, labels>>

\* the same in the specifications that leave the frame requests out: a
\* frame may then run at any time
Finish(v, call) ==
  /\ Handled(v, call)
  /\ UNCHANGED loopVars

\* toggleNodeType's filteredData: initialData without the nodes of nodeType,
\* without the links that have an endpoint outside the remaining node ids
\* and without the texture descriptor of nodeType.  The arrays of
\* initialData are the ones the first setData call sorted in place.
FilteredData(data, nodeType) ==
  LET OtherType(n) == n.g # nodeType
      nodes == SelectSeq(SortNodes(data.graphData.nodes), OtherType)
      nodeIds == {nodes[k].id : k \in 1..Len(nodes)}
      BothKept(l) == l.s \in nodeIds /\ l.t \in nodeIds
      OtherGroup(t) == t.group # nodeType
  IN [graphData |-> [nodes |-> nodes,
                     links |-> SelectSeq(data.graphData.links, BothKept)],
      nodeTextures |-> SelectSeq(SortTextures(data.nodeTextures),
                                 OtherGroup)]

\* the argument object of a setData call
Data(key) ==
  IF key.without = "" THEN DataSets[key.set]
  ELSE FilteredData(DataSets[key.set], key.without)

StoreInitialDataAlways(key) == key

\* if (!initialData) { initialData = { graphData, nodeTextures, nodeSize } }
StoreInitialData(key) ==
  IF initialData = NoData THEN key ELSE initialData

\* setData(data) up to its return: initialData is stored by the first call,
\* the graph is reset and rebuilt, the texture loads are started.  With no
\* texture descriptor Promise.all([]) is already resolved and its
\* continuation runs before any other handler.
setDataCall(key, op) ==
  LET data == Data(key)
      built == Build(data.graphData)
      call == nCalls + 1
      textures == Range(SortTextures(data.nodeTextures))
      reset == IF indexScene = <<>> THEN <<>> ELSE Tail(indexScene)
  IN /\ initialData' = StoreInitialData(key)
     /\ nodeInfo' = built.nodeInfo
     /\ connectionMesh' = [defined |-> TRUE, call |-> call,
                           color |-> built.lineColors,
                           needsUpdate |-> FALSE]
     /\ nCalls' = call
     /\ IF textures # {}
        THEN /\ indexScene' = reset
             /\ pending' = pending \cup
                             {[call |-> call, data |-> key, failed |-> FALSE,
                               remaining |-> textures]}
             /\ graph' = [call |-> call, connections |-> TRUE,
                          nodeMeshes |-> <<>>, inScene |-> FALSE]
             /\ promises' = Append(promises, "pending")
             /\ nodeMesh' = nodeMesh
        ELSE /\ indexScene' = Append(reset, [call |-> call,
                                             color |-> built.indexColors])
             /\ pending' = pending
             /\ graph' = [call |-> call, connections |-> TRUE,
                          nodeMeshes |-> <<call>>, inScene |-> TRUE]
             /\ promises' = Append(promises, "resolved")
             /\ nodeMesh' = [defined |-> TRUE, call |-> call,
                             color |-> built.nodeColors,
                             needsUpdate |-> FALSE]
     /\ effects' = <<>>
     /\ lastCall' = [NoCall EXCEPT !.op = op]
     /\ UNCHANGED <<selected, hoverNode, flyTarget, camera, renderTarget,
                    lastFrame, indexSprites, now, cameraControls, lastAnimate,
                    nodeSelectCallback, loopVars, showLabels, labelDistance,
                    labels,
                    input, output>>

\* controller.setData with one of the data sets
SetData(d) ==
  /\ nCalls < MaxCalls
  /\ setDataCall([set |-> d, without |-> ""], "setData")
  /\ UNCHANGED showGenes

\* a texture load of call c completes; after the last one the continuation
\* of Promise.all runs.  pushed is the record of the materials pushed, for
\* the specification that keeps it.
TextureLoadedWith(c, tex, pushed) ==
  /\ c \in pending
  /\ tex \in c.remaining
  /\ LET rest == c.remaining \ {tex}
         built == Build(Data(c.data).graphData)
     IN IF rest # {} \/ c.failed
        THEN /\ pending' = (pending \ {c}) \cup {[c EXCEPT !.remaining = rest]}
             /\ UNCHANGED <<nodeMesh, indexScene, graph, promises,
                 viewVars>>
        ELSE /\ pending' = pending \ {c}
             /\ graph' = [graph EXCEPT !.nodeMeshes = Append(@, c.call),
                                        !.inScene = TRUE]
             /\ promises' = [promises EXCEPT ![c.call] = "resolved"]
             /\ nodeMesh' = [defined |-> TRUE, call |-> c.call,
                             color |-> built.nodeColors,
                             needsUpdate |-> FALSE]
             /\ indexScene' = Append(indexScene,
                                     [call |-> c.call,
                                      color |-> built.indexColors])
  /\ indexSprites' = indexSprites \cup {[call |-> c.call, group |-> tex.group]}
  /\ effects' = <<>>
  /\ lastCall' = [NoCall EXCEPT !.op = "textureLoaded"]
  /\ UNCHANGED <<nodeInfo, connectionMesh, selected, hoverNode, flyTarget,
                 camera, renderTarget, nCalls, lastFrame, now, cameraControls,
                 lastAnimate, input,
                 viewVars>>
  /\ output' = pushed

TextureLoaded(c, tex) == TextureLoadedWith(c, tex, output)

SelectBy(filter) ==
  Finish(selectBy(ViewerState, filter),
         [NoCall EXCEPT !.op = "selectBy", !.filter = filter,
                        !.items = MatchingItems(filter, 1)])

\* what the 1x1 render of the index scene can produce: the background, or the
\* index color of a sprite of a mesh in the index scene
PixelsUnderCursor ==
  {Background} \cup
  UNION {{indexScene[m].color[k] :
            k \in {j \in DOMAIN indexScene[m].color : j - 1 <= MaxPick}} :
         m \in 1..Len(indexScene)}

MouseMove(pixel) ==
  Finish(onMouseMove(ViewerState, pixel),
         [NoCall EXCEPT !.op = "mousemove",
                        !.items = pickInScene(ViewerState, pixel).items])

MouseClick(pixel) ==
  Finish(onMouseClick(ViewerState, pixel),
         [NoCall EXCEPT !.op = "click",
                        !.items = pickInScene(ViewerState, pixel).items])

\* onKeypress with key q
KeypressQ ==
  Finish(resetSelection(ViewerState), [NoCall EXCEPT !.op = "keypress"])

\* render(): nothing without camera controls; otherwise the visible scene
\* is drawn with the camera and the render target as they are, and the
\* labels are recomputed; drawn is the record kept of what was drawn
RenderBody(drawn) ==
  /\ cameraControls.installed
  /\ output' = drawn
  /\ lastFrame' = [drawn |-> TRUE, viewOffset |-> camera.viewOffset,
                   target |-> renderTarget]
  /\ nodeMesh' = Upload(nodeMesh, graph.inScene
                                     /\ Includes(graph.nodeMeshes,
                                                 nodeMesh.call))
  /\ connectionMesh' = Upload(connectionMesh,
                              graph.inScene /\ graph.connections
                                /\ graph.call = connectionMesh.call)
  /\ labels' = renderLabels(camera.position)
  /\ UNCHANGED <<nodeInfo, indexScene, selected, hoverNode, flyTarget,
                 camera, renderTarget, pending, nCalls, effects, lastCall,
                 graph, promises, indexSprites, now, cameraControls,
                 lastAnimate, nodeSelectCallback, initialData, showGenes,
                 showLabels, labelDistance, input>>

RenderWith(drawn) ==
  /\ RenderBody(drawn)
  /\ UNCHANGED loopVars

Render == RenderWith(output)

Next ==
  \/ \E d \in 1..Len(DataSets) : SetData(d)
  \/ \E c \in pending : \E tex \in c.remaining : TextureLoaded(c, tex)
  \/ \E filter \in Filters : SelectBy(filter)
  \/ \E pixel \in PixelsUnderCursor : MouseMove(pixel)
  \/ \E pixel \in PixelsUnderCursor : MouseClick(pixel)
  \/ KeypressQ
  \/ Render

Spec == Init /\ [][Next]_vars

-----------------------------------------------------------------------------
(* Loading: overlapping setData calls, failing texture loads, index sprite
   loads, and picks over every sprite an index mesh holds *)

\* a texture load of call c fails: TextureLoader.load was given no onError
\* callback, so the promise of that texture is never settled and the
\* continuation of Promise.all never runs
TextureFailed(c, tex) ==
  /\ c \in pending
  /\ tex \in c.remaining
  /\ pending' = (pending \ {c}) \cup
                   {[c EXCEPT !.remaining = @ \ {tex}, !.failed = TRUE]}
  /\ effects' = <<>>
  /\ lastCall' = [NoCall EXCEPT !.op = "textureFailed"]
  /\ UNCHANGED <<nodeInfo, nodeMesh, connectionMesh, indexScene, selected,
                 hoverNode, flyTarget, camera, renderTarget, nCalls,
                 lastFrame, graph, promises, indexSprites, now, cameraControls,
                 lastAnimate, input, output,
                 viewVars>>

\* the load of an index sprite texture, started in the load callback of its
\* sprite texture, completes
IndexSpriteLoaded(l) ==
  /\ l \in indexSprites
  /\ indexSprites' = indexSprites \ {l}
  /\ effects' = <<>>
  /\ lastCall' = [NoCall EXCEPT !.op = "indexSpriteLoaded"]
  /\ UNCHANGED <<nodeInfo, nodeMesh, connectionMesh, indexScene, selected,
                 hoverNode, flyTarget, camera, renderTarget, pending, nCalls,
                 lastFrame, graph, promises, now, cameraControls, lastAnimate,
                 input, output,
                 viewVars>>

\* what the 1x1 render of the index scene can produce with the pointer over
\* any sprite of any mesh in the index scene
PixelsInIndexScene ==
  {Background} \cup
  UNION {Range(indexScene[m].color) : m \in 1..Len(indexScene)}

NextLoad ==
  \/ \E d \in 1..Len(DataSets) : SetData(d)
  \/ \E c \in pending : \E tex \in c.remaining : TextureLoaded(c, tex)
  \/ \E c \in pending : \E tex \in c.remaining : TextureFailed(c, tex)
  \/ \E l \in indexSprites : IndexSpriteLoaded(l)
  \/ Render

SpecLoad == Init /\ [][NextLoad]_vars

\* overlapping loads with the pointer over any sprite of the index scene
NextPick ==
  \/ \E d \in 1..Len(DataSets) : SetData(d)
  \/ \E c \in pending : \E tex \in c.remaining : TextureLoaded(c, tex)
  \/ \E pixel \in PixelsInIndexScene : MouseMove(pixel)
  \/ \E pixel \in PixelsInIndexScene : MouseClick(pixel)

SpecPick == Init /\ [][NextPick]_vars

-----------------------------------------------------------------------------
(* Showing and hiding a node type *)

NodeTypes == {"e", "m"}

\* toggleNodeType(nodeType) up to the return of its setData call.  With
\* initialData still null, setData(null) or the read of
\* initialData.graphData throws after showGenes was flipped.
ToggleNodeType(nodeType) ==
  /\ nCalls < MaxCalls + MaxToggles
  /\ showGenes' = ~showGenes
  /\ IF initialData = NoData
     THEN /\ effects' = <<>>
          /\ lastCall' = [NoCall EXCEPT !.op = "toggleNodeType",
                                        !.threw = TRUE]
          /\ UNCHANGED <<nodeInfo, nodeMesh, connectionMesh, indexScene,
                         selected, hoverNode, flyTarget, camera, renderTarget,
                         pending, nCalls, lastFrame, graph, promises,
                         indexSprites, now, cameraControls, lastAnimate,
                         nodeSelectCallback, loopVars, initialData, showLabels,
                         labelDistance, labels,
                         input, output>>
     ELSE setDataCall(IF ~showGenes THEN initialData
                      ELSE [initialData EXCEPT !.without = nodeType],
                      "toggleNodeType")

NextToggle ==
  \/ \E d \in 1..Len(DataSets) : SetData(d)
  \/ \E c \in pending : \E tex \in c.remaining : TextureLoaded(c, tex)
  \/ \E nodeType \in NodeTypes : ToggleNodeType(nodeType)

SpecToggle == Init /\ [][NextToggle]_vars

-----------------------------------------------------------------------------
(* Recoloring between renders, with a record of the color buffers the
   renderer holds *)

NoBuffer == [call |-> 0, color |-> <<>>]

\* the renderer's copy of a color attribute after renderer.render: the
\* attribute of a mesh in the scene is copied when it has no copy yet or
\* when its needsUpdate was set since the last copy
Copied(mesh, inScene, held) ==
  IF ~inScene \/ ~mesh.defined THEN held
  ELSE IF mesh.needsUpdate \/ held.call # mesh.call
  THEN [call |-> mesh.call, color |-> mesh.color]
  ELSE held

InitDirty ==
  /\ InitViewer
  /\ input = <<>>
  /\ output = [node |-> NoBuffer, line |-> NoBuffer]

RenderTracked ==
  RenderWith([node |-> Copied(nodeMesh,
                              graph.inScene /\ Includes(graph.nodeMeshes,
                                                        nodeMesh.call),
                              output.node),
              line |-> Copied(connectionMesh,
                              graph.inScene /\ graph.connections
                                /\ graph.call = connectionMesh.call,
                              output.line)])

NextDirty ==
  \/ \E d \in 1..Len(DataSets) : SetData(d)
  \/ \E c \in pending : \E tex \in c.remaining : TextureLoaded(c, tex)
  \/ \E pixel \in PixelsUnderCursor : MouseMove(pixel)
  \/ \E pixel \in PixelsUnderCursor : MouseClick(pixel)
  \/ KeypressQ
  \/ RenderTracked

SpecDirty == InitDirty /\ [][NextDirty]_vars

-----------------------------------------------------------------------------
(* The material arrays of setData.  output is the sequence of the pushes to
   nodeMaterials and indexMaterials, which the load callback of a texture
   makes one after the other: the call and the group of the texture. *)

\* nodeMaterials.push(...) and indexMaterials.push(...) in the load callback
MaterialLoaded(c, tex) ==
  TextureLoadedWith(c, tex,
                    Append(output, [call |-> c.call, group |-> tex.group]))

\* nodeMaterials of a call, and indexMaterials alike: the groups of the
\* sprites its materials were created from
nodeMaterials(call) ==
  LET pushes == SelectSeq(output, LAMBDA e : e.call = call)
  IN [i \in 1..Len(pushes) |-> pushes[i].group]

NextMaterials ==
  \/ \E d \in 1..Len(DataSets) : SetData(d)
  \/ \E c \in pending : \E tex \in c.remaining : MaterialLoaded(c, tex)
  \/ \E pixel \in PixelsUnderCursor : MouseClick(pixel)

SpecMaterials == Init /\ [][NextMaterials]_vars

-----------------------------------------------------------------------------
(* The pointer and key listeners of the camera controls.  The element is 4
   by 4 pixels at the page origin, which keeps the normalized pointer
   positions integers for pointers on its corners. *)

\* this.screen after handleResize()
Screen == [left |-> 0, top |-> 0, width |-> 4, height |-> 4]

\* this.keys: A, S, D
keys == <<65, 83, 68>>

getMouseOnScreen(pageX, pageY) ==
  <<(pageX - Screen.left) \div Screen.width,
    (pageY - Screen.top) \div Screen.height>>

\* (pageX - width * 0.5 - left) / (width * 0.5) and
\* (height + 2 * (top - pageY)) / width
getMouseOnCircle(pageX, pageY) ==
  <<(2 * (pageX - Screen.left) - Screen.width) \div Screen.width,
    (Screen.height + 2 * (Screen.top - pageY)) \div Screen.width>>

\* handleUpdateCamera: updateCameraCallback(camera.position)
handleUpdateCamera(v) ==
  IF updateCameraCallback
  THEN [v EXCEPT !.effects = Append(@, [type |-> "updateCamera",
                                        position |-> v.camera.position])]
  ELSE v

\* this.dispatchEvent(event) of the controls; the viewer listens for
\* change, which the frame handles, and for end with handleUpdateCamera
DispatchControls(v, type) ==
  LET v1 == [v EXCEPT !.effects = Append(@, [type |-> type])]
  IN IF type = "end" THEN handleUpdateCamera(v1) ELSE v1

\* enabled is true and noRotate, noZoom and noPan are false throughout
mousedown(v, event) ==
  LET c == v.cameraControls
      state == IF c.state = ControlsState.NONE THEN event.button ELSE c.state
      onCircle == getMouseOnCircle(event.pageX, event.pageY)
      onScreen == getMouseOnScreen(event.pageX, event.pageY)
      c1 == [c EXCEPT !.state = state]
      c2 == IF state = ControlsState.ROTATE
            THEN [c1 EXCEPT !.moveCurr = onCircle, !.movePrev = onCircle]
            ELSE IF state = ControlsState.ZOOM
            THEN [c1 EXCEPT !.zoomStart = onScreen, !.zoomEnd = onScreen]
            ELSE IF state = ControlsState.PAN
            THEN [c1 EXCEPT !.panStart = onScreen, !.panEnd = onScreen]
            ELSE c1
  IN DispatchControls([v EXCEPT !.cameraControls = c2], "start")

mousemoveAllAccumulators(v, event) ==
  LET onCircle == getMouseOnCircle(event.pageX, event.pageY)
      onScreen == getMouseOnScreen(event.pageX, event.pageY)
  IN [v EXCEPT !.cameraControls.movePrev = v.cameraControls.moveCurr,
               !.cameraControls.moveCurr = onCircle,
               !.cameraControls.zoomEnd = onScreen,
               !.cameraControls.panEnd = onScreen]

mousemove(v, event) ==
  LET c == v.cameraControls
      onCircle == getMouseOnCircle(event.pageX, event.pageY)
      onScreen == getMouseOnScreen(event.pageX, event.pageY)
      c1 == IF c.state = ControlsState.ROTATE
            THEN [c EXCEPT !.movePrev = c.moveCurr, !.moveCurr = onCircle]
            ELSE IF c.state = ControlsState.ZOOM
            THEN [c EXCEPT !.zoomEnd = onScreen]
            ELSE IF c.state = ControlsState.PAN
            THEN [c EXCEPT !.panEnd = onScreen]
            ELSE c
  IN [v EXCEPT !.cameraControls = c1]

mouseup(v) ==
  DispatchControls([v EXCEPT !.cameraControls.state = ControlsState.NONE], "end")

\* keydown: the state before the key is kept in prevState, and a key of
\* this.keys starts its action if none is under way
keydown(v, keyCode) ==
  LET c == [v.cameraControls EXCEPT !.prevState = v.cameraControls.state]
      c1 == IF c.state # ControlsState.NONE THEN c
            ELSE IF keyCode = keys[ControlsState.ROTATE + 1]
            THEN [c EXCEPT !.state = ControlsState.ROTATE]
            ELSE IF keyCode = keys[ControlsState.ZOOM + 1]
            THEN [c EXCEPT !.state = ControlsState.ZOOM]
            ELSE IF keyCode = keys[ControlsState.PAN + 1]
            THEN [c EXCEPT !.state = ControlsState.PAN]
            ELSE c
  IN [v EXCEPT !.cameraControls = c1]

\* a keydown event runs every keydown listener registered
RECURSIVE DispatchKeydown(_, _, _)
DispatchKeydown(v, keyCode, listeners) ==
  IF listeners = 0 THEN v
  ELSE DispatchKeydown(keydown(v, keyCode), keyCode, listeners - 1)

\* keyup: the state is restored and a new bound keydown function is added
\* as a listener.  The removeEventListener of keydown is given a function
\* that was never registered and removes nothing.
keyup(v) ==
  [v EXCEPT !.cameraControls.state = v.cameraControls.prevState,
            !.cameraControls.keydownListeners = @ + 1]

\* most keydown listeners on the window
MaxKeyListeners == 3

\* pointer positions on two corners of the element
PointerPages == {[pageX |-> 0, pageY |-> 0], [pageX |-> 4, pageY |-> 4]}

\* event.button: left, middle, right and the first extra button
Buttons == 0..3

\* event.keyCode: A, S, D and another key
KeyCodes == {65, 83, 68, 70}

PointerDown(button, page) ==
  /\ cameraControls.installed
  /\ Finish(mousedown(ViewerState, [button |-> button, pageX |-> page.pageX,
                                    pageY |-> page.pageY]),
            [NoCall EXCEPT !.op = "mousedown",
                           !.items = <<button, page.pageX, page.pageY>>])

PointerMove(page) ==
  /\ cameraControls.installed
  /\ Finish(mousemove(ViewerState, page),
            [NoCall EXCEPT !.op = "controlsMousemove",
                           !.items = <<page.pageX, page.pageY>>])

PointerUp ==
  /\ cameraControls.installed
  /\ Finish(mouseup(ViewerState), [NoCall EXCEPT !.op = "mouseup"])

KeyDown(keyCode) ==
  /\ cameraControls.installed
  /\ Finish(DispatchKeydown(ViewerState, keyCode,
                            cameraControls.keydownListeners),
            [NoCall EXCEPT !.op = "keydown", !.items = <<keyCode>>])

KeyUp ==
  /\ cameraControls.installed
  /\ cameraControls.keydownListeners < MaxKeyListeners
  /\ Finish(keyup(ViewerState), [NoCall EXCEPT !.op = "keyup"])

NextControls ==
  \/ \E button \in Buttons : \E page \in PointerPages :
        PointerDown(button, page)
  \/ \E page \in PointerPages : PointerMove(page)
  \/ PointerUp
  \/ \E keyCode \in KeyCodes : KeyDown(keyCode)
  \/ KeyUp

SpecControls == Init /\ [][NextControls]_vars

-----------------------------------------------------------------------------
(* The touch listeners of the camera controls.  input is event.touches, the
   contacts on the screen in the order they were put down.  The pages are
   chosen so that the distance between any two contacts is an integer and
   the midpoint of any two is normalized to integers. *)

\* Math.sqrt on the squares that occur
Sqrt(n) == CHOOSE r \in 0..n : r * r <= n /\ (r + 1) * (r + 1) > n

\* Math.sqrt(dx * dx + dy * dy) of the first two contacts
TouchDistance(touches) ==
  LET dx == touches[1].pageX - touches[2].pageX
      dy == touches[1].pageY - touches[2].pageY
  IN Sqrt(dx * dx + dy * dy)

\* getMouseOnScreen of the midpoint of the first two contacts
TouchMidpoint(touches) ==
  getMouseOnScreen((touches[1].pageX + touches[2].pageX) \div 2,
                   (touches[1].pageY + touches[2].pageY) \div 2)

touchstart(v, touches) ==
  LET c == v.cameraControls
      onCircle == getMouseOnCircle(touches[1].pageX, touches[1].pageY)
      c1 == IF Len(touches) = 1
            THEN [c EXCEPT !.state = ControlsState.TOUCH_ROTATE,
                           !.moveCurr = onCircle, !.movePrev = onCircle]
            ELSE [c EXCEPT !.state = ControlsState.TOUCH_ZOOM_PAN,
                           !.touchZoomDistanceEnd = TouchDistance(touches),
                           !.touchZoomDistanceStart = TouchDistance(touches),
                           !.panStart = TouchMidpoint(touches),
                           !.panEnd = TouchMidpoint(touches)]
  IN DispatchControls([v EXCEPT !.cameraControls = c1], "start")

touchmove(v, touches) ==
  LET c == v.cameraControls
      onCircle == getMouseOnCircle(touches[1].pageX, touches[1].pageY)
      c1 == IF Len(touches) = 1
            THEN [c EXCEPT !.movePrev = c.moveCurr, !.moveCurr = onCircle]
            ELSE [c EXCEPT !.touchZoomDistanceEnd = TouchDistance(touches),
                           !.panEnd = TouchMidpoint(touches)]
  IN [v EXCEPT !.cameraControls = c1]

\* a touchend that leaves the state as it is when no contact remains
touchendKeepState(v, touches) ==
  DispatchControls(v, "end")

\* touchend: with two or more contacts left no case of the switch matches
touchend(v, touches) ==
  LET c == v.cameraControls
      c1 == IF Len(touches) = 0
            THEN [c EXCEPT !.state = ControlsState.NONE]
            ELSE IF Len(touches) = 1
            THEN LET onCircle == getMouseOnCircle(touches[1].pageX,
                                                  touches[1].pageY)
                 IN [c EXCEPT !.state = ControlsState.TOUCH_ROTATE,
                              !.moveCurr = onCircle, !.movePrev = onCircle]
            ELSE c
  IN DispatchControls([v EXCEPT !.cameraControls = c1], "end")

\* most contacts on the screen at once
MaxTouches == 3

\* where a contact can be
TouchPages == {[pageX |-> 0, pageY |-> 0], [pageX |-> 24, pageY |-> 0],
               [pageX |-> 24, pageY |-> 32]}

\* the handler has run and left the viewer as v; touches is what is now in
\* contact with the screen, or the key that is now held
FinishInput(v, call, touches) ==
  /\ cameraControls' = v.cameraControls
  /\ effects' = v.effects
  /\ lastCall' = [call EXCEPT !.threw = v.threw]
  /\ input' = touches
  /\ UNCHANGED <<nodeInfo, nodeMesh, connectionMesh, indexScene, selected,
                 hoverNode, flyTarget, camera, renderTarget, pending, nCalls,
                 lastFrame, graph, promises, indexSprites, now, lastAnimate,
                 viewVars, output>>

\* the contacts of touches that are not among the positions lifted
RECURSIVE Remaining(_, _, _)
Remaining(touches, lifted, i) ==
  IF i > Len(touches) THEN <<>>
  ELSE (IF i \in lifted THEN <<>> ELSE <<touches[i]>>)
       \o Remaining(touches, lifted, i + 1)

\* one more contact is put down
TouchStart(page) ==
  /\ cameraControls.installed
  /\ Len(input) < MaxTouches
  /\ FinishInput(touchstart(ViewerState, Append(input, page)),
                 [NoCall EXCEPT !.op = "touchstart"], Append(input, page))

\* a contact moves
TouchMove(i, page) ==
  /\ cameraControls.installed
  /\ i \in 1..Len(input)
  /\ input[i] # page
  /\ FinishInput(touchmove(ViewerState, [input EXCEPT ![i] = page]),
                 [NoCall EXCEPT !.op = "touchmove"],
                 [input EXCEPT ![i] = page])

\* one or more contacts are lifted at once
TouchEnd(lifted) ==
  /\ cameraControls.installed
  /\ lifted # {}
  /\ lifted \subseteq 1..Len(input)
  /\ FinishInput(touchend(ViewerState, Remaining(input, lifted, 1)),
                 [NoCall EXCEPT !.op = "touchend"],
                 Remaining(input, lifted, 1))

NextTouch ==
  \/ \E page \in TouchPages : TouchStart(page)
  \/ \E i \in 1..MaxTouches : \E page \in TouchPages : TouchMove(i, page)
  \/ \E lifted \in SUBSET (1..MaxTouches) : TouchEnd(lifted)

SpecTouch == Init /\ [][NextTouch]_vars

-----------------------------------------------------------------------------
(* One key at a time and a moving pointer.  input is <<>> while no key is
   held and otherwise holds the code of the key. *)

\* a key goes down
KeyPress(keyCode) ==
  /\ cameraControls.installed
  /\ input = <<>>
  /\ FinishInput(DispatchKeydown(ViewerState, keyCode,
                                 cameraControls.keydownListeners),
                 [NoCall EXCEPT !.op = "keydown", !.items = <<keyCode>>],
                 <<keyCode>>)

\* the held key repeats: another keydown event of the same key
KeyRepeat ==
  /\ cameraControls.installed
  /\ input # <<>>
  /\ FinishInput(DispatchKeydown(ViewerState, input[1],
                                 cameraControls.keydownListeners),
                 [NoCall EXCEPT !.op = "keydown", !.items = input],
                 input)

\* the held key is released
KeyRelease ==
  /\ cameraControls.installed
  /\ input # <<>>
  /\ cameraControls.keydownListeners < MaxKeyListeners
  /\ FinishInput(keyup(ViewerState), [NoCall EXCEPT !.op = "keyup"], <<>>)

\* the pointer moves while keys are pressed and released: a held control
\* key makes the pointer rotate, zoom or pan
NextKeys ==
  \/ \E keyCode \in KeyCodes : KeyPress(keyCode)
  \/ KeyRepeat
  \/ KeyRelease
  \/ \E page \in PointerPages : PointerMove(page)

SpecKeys == Init /\ [][NextKeys]_vars

-----------------------------------------------------------------------------
(* The wheel listener of the camera controls and its interval timer.  input
   counts the wheel events received since the timer was last set, output is
   the log of the start and end events the wheel handling has dispatched. *)

\* the change of zoomStart.y: deltaY * 0.025 for pages, deltaY * 0.01 for
\* lines and deltaY * 0.00025 for pixels
WheelZoom(event) ==
  IF event.deltaMode = 2 THEN (event.deltaY * 25) \div 1000
  ELSE IF event.deltaMode = 1 THEN event.deltaY \div 100
  ELSE (event.deltaY * 25) \div 100000

mousewheelReset(c) ==
  [c EXCEPT !.marker = TRUE, !.counter1 = 0, !.counter2 = Undefined]

\* counter2 = counter1 and setTimeout(..., this.interval)
mousewheelContinue(v) ==
  [v EXCEPT !.cameraControls.counter2 = v.cameraControls.counter1,
            !.cameraControls.timeouts = @ + 1]

mousewheelStart(v) ==
  mousewheelContinue([DispatchControls(v, "start")
                        EXCEPT !.cameraControls.marker = FALSE])

mousewheelEnd(v) ==
  DispatchControls([v EXCEPT !.cameraControls =
                                mousewheelReset(v.cameraControls)], "end")

\* a wheel listener that starts anew on every event
mousewheelAlwaysStart(v, event) ==
  mousewheelStart([v EXCEPT !.cameraControls.counter1 = @ + 1])

\* enabled is true and noZoom is false throughout
mousewheel(v, event) ==
  LET v1 == [v EXCEPT !.cameraControls.zoomStart[2] = @ - WheelZoom(event),
                      !.cameraControls.counter1 = @ + 1]
  IN IF v1.cameraControls.marker THEN mousewheelStart(v1) ELSE v1

\* the callback mousewheelContinue gave to setTimeout
wheelTimeout(v) ==
  LET v1 == [v EXCEPT !.cameraControls.timeouts = @ - 1]
  IN IF v1.cameraControls.counter2 = v1.cameraControls.counter1
     THEN mousewheelEnd(v1)
     ELSE mousewheelContinue(v1)

\* most wheel events in one burst, and most bursts
MaxWheel == 3
MaxBursts == 2

\* a wheel event in pixels, in lines and in pages, each worth one unit of
\* zoomStart.y
WheelEvents == {[deltaMode |-> 0, deltaY |-> 4000],
                [deltaMode |-> 1, deltaY |-> -100],
                [deltaMode |-> 2, deltaY |-> 40]}

\* the start and end events among the effects of a handler
StartsAndEnds(log) ==
  SelectSeq(log, LAMBDA e : e.type \in {"start", "end"})

\* setUpdateCameraCallback(callback); callback is a function (TRUE) or
\* undefined (FALSE)
SetUpdateCameraCallback(callback) ==
  /\ updateCameraCallback' = callback
  /\ updateCameraCallback # callback
  /\ UNCHANGED <<nodeInfo, nodeMesh, connectionMesh, indexScene, selected,
                 hoverNode, flyTarget, camera, renderTarget, pending, nCalls,
                 effects, lastCall, lastFrame, graph, promises, indexSprites,
                 now, cameraControls, lastAnimate, nodeSelectCallback,
                 initialData, showGenes, showLabels, labelDistance, labels,
                 animationId, frameRequests, disposed, input, output>>

\* the handler has run and left the viewer as v; received is the number of
\* wheel events since the timer was set
FinishWheel(v, call, received) ==
  /\ cameraControls' = v.cameraControls
  /\ effects' = v.effects
  /\ lastCall' = [call EXCEPT !.threw = v.threw]
  /\ input' = received
  /\ output' = output \o StartsAndEnds(v.effects)
  /\ UNCHANGED <<nodeInfo, nodeMesh, connectionMesh, indexScene, selected,
                 hoverNode, flyTarget, camera, renderTarget, pending, nCalls,
                 lastFrame, graph, promises, indexSprites, now, lastAnimate,
                 viewVars>>

Wheel(event) ==
  /\ cameraControls.installed
  /\ cameraControls.counter1 < MaxWheel
  /\ Len(output) < 2 * MaxBursts
  /\ FinishWheel(mousewheel(ViewerState, event),
                 [NoCall EXCEPT !.op = "mousewheel"],
                 IF cameraControls.timeouts = 0 THEN 0 ELSE input + 1)

\* the interval has passed since a timer was set
WheelTimeout ==
  /\ cameraControls.timeouts > 0
  /\ FinishWheel(wheelTimeout(ViewerState),
                 [NoCall EXCEPT !.op = "wheelTimeout"], 0)

InitWheel ==
  /\ InitViewer
  /\ input = 0
  /\ output = <<>>

NextWheel ==
  \/ \E event \in WheelEvents : Wheel(event)
  \/ WheelTimeout
  \/ \E callback \in BOOLEAN : SetUpdateCameraCallback(callback)

SpecWheel == InitWheel /\ [][NextWheel]_vars

-----------------------------------------------------------------------------
(* The node-click callback *)

\* setNodeSelectCallback(callback); callback is a function (TRUE) or
\* undefined (FALSE)
SetNodeSelectCallback(callback) ==
  /\ nodeSelectCallback' = callback
  /\ effects' = <<>>
  /\ lastCall' = [NoCall EXCEPT !.op = "setNodeSelectCallback"]
  /\ UNCHANGED <<nodeInfo, nodeMesh, connectionMesh, indexScene, selected,
                 hoverNode, flyTarget, camera, renderTarget, pending, nCalls,
                 lastFrame, graph, promises, indexSprites, now, cameraControls,
                 lastAnimate, initialData, showGenes, showLabels,
                 labelDistance, labels, loopVars,
                 input, output>>

NextClick ==
  \/ \E d \in 1..Len(DataSets) : SetData(d)
  \/ \E c \in pending : \E tex \in c.remaining : TextureLoaded(c, tex)
  \/ \E callback \in BOOLEAN : SetNodeSelectCallback(callback)
  \/ \E pixel \in PixelsUnderCursor : MouseMove(pixel)
  \/ \E pixel \in PixelsUnderCursor : MouseClick(pixel)

SpecClick == Init /\ [][NextClick]_vars

\* the same with the calls that empty the selection
NextSelection ==
  \/ NextClick
  \/ \E filter \in Filters : SelectBy(filter)
  \/ KeypressQ

SpecSelection == Init /\ [][NextSelection]_vars

-----------------------------------------------------------------------------
(* The per-frame callback, the clock and the camera calls *)

\* the clock advances by a third of the fly duration
TickMs == runTime \div 3

\* arguments given to setCamera: the position alone, with an up vector, or
\* with a target (the position itself); the distances from the default
\* camera position and up vector are multiples of a high power of 3
CameraCalls ==
  {[position |-> <<0, 0, 84>>, up |-> <<>>, target |-> <<>>],
   [position |-> <<0, 0, 84>>, up |-> <<729, 1, 0>>, target |-> <<>>],
   [position |-> <<0, 0, 84>>, up |-> <<>>, target |-> <<0, 0, 84>>]}

NoControls ==
  [installed |-> FALSE, target |-> <<0, 0, 0>>, lastPosition |-> <<0, 0, 0>>]
    @@ Internals

\* the viewer inside its constructor, before the first animate() call of
\* line 1017: no controls are installed yet
InitFly ==
  /\ InitState
  /\ cameraControls = NoControls
  /\ input = <<>>
  /\ output = <<>>

Tick ==
  /\ now < MaxTicks * TickMs
  /\ now' = now + TickMs
  /\ effects' = <<>>
  /\ lastCall' = [NoCall EXCEPT !.op = "tick"]
  /\ UNCHANGED <<nodeInfo, nodeMesh, connectionMesh, indexScene, selected,
                 hoverNode, flyTarget, camera, renderTarget, pending, nCalls,
                 lastFrame, graph, promises, indexSprites, cameraControls,
                 lastAnimate, input, output,
                 viewVars>>

\* whether the frame log of viewer v holds an entry of the given type
Ran(v, type) == \E k \in 1..Len(v.effects) : v.effects[k].type = type

\* the camera as flyUpdate placed it in the frame that left the viewer as v
FlyPlaced(v) ==
  IF Ran(v, "flyUpdate")
  THEN v.effects[CHOOSE k \in 1..Len(v.effects) :
                   v.effects[k].type = "flyUpdate"]
  ELSE [position |-> <<>>, up |-> <<>>]

\* what a frame that left the viewer as v ran
FrameOf(v) ==
  [ran |-> TRUE,
   fly |-> Ran(v, "flyUpdate"),
   update |-> Ran(v, "update"),
   render |-> Ran(v, "render"),
   elapsed |-> IF flyTarget.active THEN now - flyTarget.startTime ELSE 0,
   flyPosition |-> FlyPlaced(v).position,
   flyUp |-> FlyPlaced(v).up]

\* one animation frame; the render listener of the controls' change event
\* draws the visible scene
AnimateBody ==
  \E v \in {animate(ViewerState)} :
     /\ flyTarget' = v.flyTarget
     /\ camera' = v.camera
     /\ cameraControls' = v.cameraControls
     /\ effects' = v.effects
     /\ lastCall' = [NoCall EXCEPT !.op = "animate"]
     /\ lastAnimate' = FrameOf(v)
     /\ lastFrame' = IF Ran(v, "change")
                     THEN [drawn |-> TRUE, viewOffset |-> camera.viewOffset,
                           target |-> renderTarget]
                     ELSE lastFrame
     /\ IF Ran(v, "change")
        THEN /\ nodeMesh' = Upload(nodeMesh,
                                   graph.inScene
                                     /\ Includes(graph.nodeMeshes,
                                                 nodeMesh.call))
             /\ connectionMesh' = Upload(connectionMesh,
                                         graph.inScene /\ graph.connections
                                           /\ graph.call
                                                = connectionMesh.call)
             /\ labels' = renderLabels(v.camera.position)
        ELSE UNCHANGED <<nodeMesh, connectionMesh, labels>>
     /\ UNCHANGED <<nodeInfo, indexScene, selected, hoverNode, renderTarget,
                    pending, nCalls, graph, promises, indexSprites, now,
                    nodeSelectCallback, initialData, showGenes, showLabels,
                    labelDistance, input, output>>

Animate ==
  /\ AnimateBody
  /\ UNCHANGED loopVars

\* setCameraControls(AtlasViewerControls) at the end of the constructor,
\* after the first animate() call: new controls with the target at the
\* origin, whose constructor runs update() before any listener is attached
SetCameraControls ==
  /\ lastAnimate.ran
  /\ ~cameraControls.installed
  /\ LET v0 == [ViewerState EXCEPT
                  !.cameraControls = [NoControls EXCEPT !.installed = TRUE]]
         v == update(v0)
     IN /\ camera' = v.camera
        /\ cameraControls' = v.cameraControls
  /\ effects' = <<>>
  /\ lastCall' = [NoCall EXCEPT !.op = "setCameraControls"]
  /\ UNCHANGED <<nodeInfo, nodeMesh, connectionMesh, indexScene, selected,
                 hoverNode, flyTarget, renderTarget, pending, nCalls,
                 lastFrame, graph, promises, indexSprites, now, lastAnimate,
                 input, output,
                 viewVars>>

\* controller.setCamera(position, up, target); input keeps the arguments
SetCamera(position, up, target) ==
  /\ cameraControls.installed
  /\ LET v == setCamera(ViewerState, position, up, target)
     IN /\ camera' = v.camera
        /\ cameraControls' = v.cameraControls
        /\ flyTarget' = v.flyTarget
        /\ lastCall' = [NoCall EXCEPT !.op = "setCamera", !.threw = v.threw]
  /\ effects' = <<>>
  /\ input' = [position |-> position, up |-> up, target |-> target]
  /\ UNCHANGED <<nodeInfo, nodeMesh, connectionMesh, indexScene, selected,
                 hoverNode, renderTarget, pending, nCalls, lastFrame, graph,
                 promises, indexSprites, now, lastAnimate, output,
                 viewVars>>

\* onKeypress with key r: resetCamera(); a transition is only started while
\* the clock of the model can still run to its end
KeypressR ==
  /\ cameraControls.installed
  /\ now + runTime <= MaxTicks * TickMs
  /\ Finish(resetCamera(ViewerState), [NoCall EXCEPT !.op = "keypressR"])

NextFly ==
  \/ Tick
  \/ Animate
  \/ SetCameraControls
  \/ \E c \in CameraCalls : SetCamera(c.position, c.up, c.target)
  \/ KeypressR

SpecFly == InitFly /\ [][NextFly]_vars

\* animation frames keep firing and the wall clock advances
SpecFlyLive == SpecFly /\ WF_vars(Tick) /\ WF_vars(Animate)

-----------------------------------------------------------------------------
(* The animation loop and dispose().  Every requestAnimationFrame call of
   the viewer stores the id it returns in animationId; the ids are handed
   out in order, so the next id is the one after animationId. *)

\* most frame requests made
MaxFrameIds == 6

\* animationId = requestAnimationFrame(callback), with the requests that
\* remain outstanding otherwise
RequestFrame(remaining, callback) ==
  /\ animationId' = animationId + 1
  /\ frameRequests' = remaining \cup {[id |-> animationId + 1,
                                       callback |-> callback]}

\* cancelAnimationFrame(id)
cancelAnimationFrame(requests, id) == {r \in requests : r.id # id}

\* a listener of the viewer ends with animationId =
\* requestAnimationFrame(render), which a TypeError before it skips
HandledFrame(v, call) ==
  /\ ~disposed
  /\ animationId < MaxFrameIds
  /\ Handled(v, call)
  /\ IF v.threw THEN UNCHANGED <<animationId, frameRequests>>
     ELSE RequestFrame(frameRequests, "render")
  /\ UNCHANGED <<updateCameraCallback, disposed>>

MouseMoveFrame(pixel) ==
  HandledFrame(onMouseMove(ViewerState, pixel),
               [NoCall EXCEPT !.op = "mousemove",
                              !.items = pickInScene(ViewerState, pixel).items])

KeypressQFrame ==
  HandledFrame(resetSelection(ViewerState), [NoCall EXCEPT !.op = "keypress"])

\* animate() after dispose(): camera and cameraControls are null.  flyUpdate
\* clears the active flag of a transition whose time is up and raises a
\* TypeError in setCamera; with no transition render() is called and
\* returns at once.
AnimateDisposed ==
  /\ flyTarget' = IF flyTarget.active /\ now - flyTarget.startTime >= runTime
                  THEN [flyTarget EXCEPT !.active = FALSE]
                  ELSE flyTarget
  /\ effects' = <<>>
  /\ lastCall' = [NoCall EXCEPT !.op = "animate", !.threw = flyTarget.active]
  /\ lastAnimate' = [NoFrame EXCEPT !.ran = TRUE, !.fly = flyTarget.active,
                                    !.render = ~flyTarget.active]
  /\ UNCHANGED <<nodeInfo, nodeMesh, connectionMesh, indexScene, selected,
                 hoverNode, camera, renderTarget, pending, nCalls, lastFrame,
                 graph, promises, indexSprites, now, cameraControls,
                 nodeSelectCallback, initialData, showGenes, showLabels,
                 labelDistance, labels, input, output>>

\* the frame runs a request of animate: the callback requests the next
\* frame first
FrameAnimate(r) ==
  /\ r \in frameRequests
  /\ r.callback = "animate"
  /\ animationId < MaxFrameIds
  /\ RequestFrame(frameRequests \ {r}, "animate")
  /\ IF disposed THEN AnimateDisposed ELSE AnimateBody
  /\ UNCHANGED <<updateCameraCallback, disposed>>

\* the frame runs a request of render, which returns at once without a
\* renderer or without controls
FrameRender(r) ==
  /\ r \in frameRequests
  /\ r.callback = "render"
  /\ frameRequests' = frameRequests \ {r}
  /\ IF disposed \/ ~cameraControls.installed
     THEN UNCHANGED <<nodeInfo, nodeMesh, connectionMesh, indexScene,
                      selected, hoverNode, flyTarget, camera, renderTarget,
                      pending, nCalls, effects, lastCall, lastFrame, graph,
                      promises, indexSprites, now, cameraControls,
                      lastAnimate, nodeSelectCallback, initialData, showGenes,
                      showLabels, labelDistance, labels, input, output>>
     ELSE RenderBody(output)
  /\ UNCHANGED <<updateCameraCallback, animationId, disposed>>

\* dispose(): the request with the stored id is cancelled, the listeners
\* of the viewer are removed, and renderer, scene, camera and
\* cameraControls are set to null
Dispose ==
  /\ ~disposed
  /\ frameRequests' = cancelAnimationFrame(frameRequests, animationId)
  /\ disposed' = TRUE
  /\ cameraControls' = [cameraControls EXCEPT !.installed = FALSE]
  /\ effects' = <<>>
  /\ lastCall' = [NoCall EXCEPT !.op = "dispose"]
  /\ UNCHANGED <<nodeInfo, nodeMesh, connectionMesh, indexScene, selected,
                 hoverNode, flyTarget, camera, renderTarget, pending, nCalls,
                 lastFrame, graph, promises, indexSprites, now, lastAnimate,
                 nodeSelectCallback, initialData, showGenes, showLabels,
                 labelDistance, labels, updateCameraCallback, animationId,
                 input, output>>

\* the key r while the keypress listener is registered
KeypressRListening ==
  /\ ~disposed
  /\ KeypressR

NextDispose ==
  \/ \E pixel \in PixelsUnderCursor : MouseMoveFrame(pixel)
  \/ KeypressQFrame
  \/ KeypressRListening
  \/ \E r \in frameRequests : FrameAnimate(r)
  \/ \E r \in frameRequests : FrameRender(r)
  \/ Dispose

SpecDispose == Init /\ [][NextDispose]_vars

-----------------------------------------------------------------------------
(* Node labels *)

\* toggleLabels(): the label group is cleared if labels were shown
ToggleLabels ==
  /\ labels' = IF showLabels THEN {} ELSE labels
  /\ showLabels' = ~showLabels
  /\ effects' = <<>>
  /\ lastCall' = [NoCall EXCEPT !.op = "toggleLabels"]
  /\ UNCHANGED <<nodeInfo, nodeMesh, connectionMesh, indexScene, selected,
                 hoverNode, flyTarget, camera, renderTarget, pending, nCalls,
                 lastFrame, graph, promises, indexSprites, now, cameraControls,
                 lastAnimate, nodeSelectCallback, loopVars, initialData,
                 showGenes,
                 labelDistance, input, output>>

\* setLabelDistance(newDistance)
SetLabelDistance(newDistance) ==
  /\ labelDistance' = newDistance
  /\ effects' = <<>>
  /\ lastCall' = [NoCall EXCEPT !.op = "setLabelDistance"]
  /\ UNCHANGED <<nodeInfo, nodeMesh, connectionMesh, indexScene, selected,
                 hoverNode, flyTarget, camera, renderTarget, pending, nCalls,
                 lastFrame, graph, promises, indexSprites, now, cameraControls,
                 lastAnimate, nodeSelectCallback, loopVars, initialData,
                 showGenes,
                 showLabels, labels, input, output>>

\* label distances given to setLabelDistance
LabelDistances == {100, 200}

\* camera positions on the axis the nodes lie on, among and beyond them
LabelCameras == {<<250, 0, 0>>, <<400, 0, 0>>}

NextLabel ==
  \/ \E d \in 1..Len(DataSets) : SetData(d)
  \/ \E c \in pending : \E tex \in c.remaining : TextureLoaded(c, tex)
  \/ \E position \in LabelCameras : SetCamera(position, <<>>, <<>>)
  \/ \E newDistance \in LabelDistances : SetLabelDistance(newDistance)
  \/ ToggleLabels
  \/ Render

SpecLabel == Init /\ [][NextLabel]_vars

-----------------------------------------------------------------------------
(* Focusing: focusOnItems over data sets with near and far nodes *)

\* nodes on the positive x axis, some of them beyond the maximum camera
\* range; every coordinate is a multiple of 12, so that the mid point of up
\* to four of them has whole coordinates
FocusNodes ==
  <<Node("a", 60, "m", <<>>), Node("b", 120, "m", <<>>),
    Node("c", 240, "m", <<>>), Node("d", 5640, "m", <<>>),
    Node("e", 5880, "m", <<>>)>>

\* the members of a set of numbers in ascending order
RECURSIVE Ascending(_)
Ascending(S) ==
  IF S = {} THEN <<>>
  ELSE LET m == CHOOSE x \in S : \A y \in S : x <= y
       IN <<m>> \o Ascending(S \ {m})

\* node lists of one to MaxFocus nodes
FocusGraphs ==
  {[k \in 1..Cardinality(S) |-> FocusNodes[Ascending(S)[k]]] :
     S \in {T \in SUBSET (1..Len(FocusNodes)) :
              T # {} /\ Cardinality(T) <= MaxFocus}}

\* the viewer after setData has built the node table of a data set; input is
\* the list of node indices to focus on
InitFocus ==
  /\ InitOther
  /\ cameraControls = [installed |-> TRUE, target |-> <<0, 0, 0>>,
                       lastPosition |-> <<0, 0, 3000>>] @@ Internals
  /\ \E nodes \in FocusGraphs :
        /\ nodeInfo = Build([nodes |-> nodes, links |-> <<>>]).nodeInfo
        /\ input \in {Ascending(S) : S \in SUBSET (0..(Len(nodes) - 1))}
  /\ output = <<>>

\* focusOnItems(items)
FocusOn ==
  Finish(focusOnItems(ViewerState, input),
         [NoCall EXCEPT !.op = "focusOn", !.items = input])

NextFocus == FocusOn

SpecFocus == InitFocus /\ [][NextFocus]_vars

-----------------------------------------------------------------------------
(* The build applied to arbitrary node and link lists *)

RECURSIVE SeqsUpTo(_, _)
SeqsUpTo(S, n) ==
  IF n = 0 THEN {<<>>}
  ELSE LET shorter == SeqsUpTo(S, n - 1)
       IN shorter \cup {Append(q, x) : q \in shorter, x \in S}

BuildNodes ==
  {Node("a", 60, "m", <<>>), Node("a", 120, "e", <<>>),
   Node("b", 180, "m", <<>>), Node("b", 240, "e", <<5, 6, 7>>)}

BuildLinks == {Link(s, t) : s \in {"a", "b", "z"}, t \in {"a", "b", "z"}}

InitBuild ==
  /\ InitViewer
  /\ input \in [nodes : SeqsUpTo(BuildNodes, MaxNodes),
                 links : SeqsUpTo(BuildLinks, MaxLinks)]
  /\ output = [done |-> FALSE, built |-> <<>>]

BuildStep ==
  /\ ~output.done
  /\ output' = [done |-> TRUE, built |-> Build(input)]
  /\ UNCHANGED <<viewerVars, input>>

NextBuild == BuildStep

SpecBuild == InitBuild /\ [][NextBuild]_vars

\* texture descriptors given to setData
BuildTextures == {[group |-> g] : g \in {"e", "m", "r"}}

\* node lists of up to MaxGroupNodes nodes with descriptor lists of up to
\* MaxTextures descriptors, and no links
InitGroups ==
  /\ InitViewer
  /\ input \in [nodes : SeqsUpTo(BuildNodes, MaxGroupNodes),
                 links : {<<>>},
                 nodeTextures : SeqsUpTo(BuildTextures, MaxTextures)]
  /\ output = [done |-> FALSE, built |-> <<>>, groups |-> <<>>]

GroupStep ==
  /\ ~output.done
  /\ output' = [done |-> TRUE,
                built |-> Build([nodes |-> input.nodes,
                                 links |-> input.links]),
                groups |-> MaterialGroups(input, input.nodeTextures)]
  /\ UNCHANGED <<viewerVars, input>>

NextGroups == GroupStep

SpecGroups == InitGroups /\ [][NextGroups]_vars

-----------------------------------------------------------------------------
(* The index color of a node index and the pick of a pixel *)

SampleBytes ==
  (0..ByteSpread) \cup ((128 - ByteSpread)..(127 + ByteSpread))
  \cup ((255 - ByteSpread)..255)

SamplePixels == {<<r, g, b>> : r \in SampleBytes, g \in SampleBytes, b \in SampleBytes}

\* node indices 0..16,777,214 whose bytes are sample bytes
SampleIndices ==
  {px[1] * 65536 + px[2] * 256 + px[3] : px \in SamplePixels \ {Background}}

NoPick ==
  [returned |-> FALSE, items |-> <<>>, viewOffset |-> FALSE,
   renderTarget |-> DefaultTarget]

InitCodec ==
  /\ InitViewer
  /\ input \in {[kind |-> "index", i |-> i, pixel |-> Background] :
                   i \in SampleIndices}
              \cup {[kind |-> "pixel", i |-> 0, pixel |-> px] :
                      px \in SamplePixels}
  /\ output = [stage |-> "start", color |-> Background, pick |-> NoPick]

\* the index color of node input.i as the index geometry stores it
CodecEncode ==
  /\ input.kind = "index"
  /\ output.stage = "start"
  /\ output' = [output EXCEPT !.stage = "encoded",
                              !.color = Uint8Triple(IndexColor(input.i))]
  /\ UNCHANGED <<viewerVars, input>>

\* pickInScene reads back the stored index color, or the given pixel
CodecPick ==
  /\ \/ input.kind = "index" /\ output.stage = "encoded"
     \/ input.kind = "pixel" /\ output.stage = "start"
  /\ LET px == IF input.kind = "index" THEN output.color ELSE input.pixel
         pick == pickInScene(ViewerState, px)
     IN output' = [stage |-> "picked", color |-> px,
                   pick |-> [returned |-> pick.returned,
                             items |-> pick.items,
                             viewOffset |-> pick.v.camera.viewOffset,
                             renderTarget |-> pick.v.renderTarget]]
  /\ UNCHANGED <<viewerVars, input>>

NextCodec == CodecEncode \/ CodecPick

SpecCodec == InitCodec /\ [][NextCodec]_vars

-----------------------------------------------------------------------------
(* Properties *)

\* the latest handler called select(items) persistently and select returned
PersistentSelectReturned ==
  /\ ~lastCall.threw
  /\ \/ lastCall.op \in {"selectBy", "keypress"}
     \/ lastCall.op = "click" /\ lastCall.items # <<>>

\* the latest handler was a pointer move whose hover call returned
HoverReturned == lastCall.op = "mousemove" /\ ~lastCall.threw

\* the records of the given indices, as an event carries them
RecordsOf(items) ==
  [k \in 1..Len(items) |->
     IF items[k] >= 0 /\ items[k] < Len(nodeInfo)
     THEN nodeInfo[items[k] + 1] ELSE UndefinedRecord]

SelectEventsIn(log) == {k \in 1..Len(log) : log[k].type = "select"}

RestingColor(sel, n) ==
  IF \E k \in 1..Len(sel) : sel[k] = n
  THEN nodeSelectColor
  ELSE nodeInfo[n + 1].color

\* a step from a state reached by hover(n) to one reached by hover(none),
\* for a node n of the built data set drawn by the current node mesh
HoverThenUnhover(n) ==
  /\ HoverReturned
  /\ lastCall.items = <<n>>
  /\ n < Len(nodeInfo)
  /\ nodeMesh.defined
  /\ n < Len(nodeMesh.color)
  /\ lastCall'.op = "mousemove"
  /\ ~lastCall'.threw
  /\ lastCall'.items = <<>>

\* C3: for every node index n of the built data set, index 0 included,
\* hover(n) followed by hover(none) leaves node n's entry of the node color
\* buffer equal to its resting color.
C3_HoverRestoresResting ==
  [][\A n \in 0..4 :
       HoverThenUnhover(n) =>
         nodeMesh'.color[n + 1] = RestingColor(selected', n)]_vars

\* a pointer move over the background that returned while node 0, of the
\* built data set and not persistently selected, was the hovered node, and
\* node 0 still shows the hover color
C3_Witness ==
  /\ HoverReturned
  /\ lastCall.items = <<>>
  /\ hoverNode = 0
  /\ nodeMesh.defined
  /\ Len(nodeInfo) = 5
  /\ Len(nodeMesh.color) = 5
  /\ selected = <<>>
  /\ nodeMesh.color[1] = hoverSelectColor

\* the same for the node indices other than 0
C3_HoverRestoresNonZero ==
  [][\A n \in 1..4 :
       HoverThenUnhover(n) =>
         nodeMesh'.color[n + 1] = RestingColor(selected', n)]_vars

\* the latest handler was a selectBy call that returned
SelectByReturned == lastCall.op = "selectBy" /\ ~lastCall.threw

\* the accepted values of a filter key, as a set
AcceptedSet(entry) ==
  IF entry.isArray THEN {entry.value[k] : k \in 1..Len(entry.value)}
  ELSE {entry.value}

\* the string attributes a node record has under a key
Attributes(record, key) ==
  IF key = "id" THEN {record.id}
  ELSE IF key = "n" THEN {record.n}
  ELSE IF key = "group" THEN {record.group}
  ELSE {}

\* the indices of the records that match a filter on at least one key
MatchSet(filter) ==
  {i \in 0..(Len(nodeInfo) - 1) :
     \E k \in 1..Len(filter) :
        Attributes(nodeInfo[i + 1], filter[k].key)
          \cap AcceptedSet(filter[k]) # {}}

FilterG == <<[key |-> "g", value |-> <<"m">>, isArray |-> TRUE]>>

FilterGroup == <<[key |-> "group", value |-> <<"m">>, isArray |-> TRUE]>>

\* the graph with two nodes of group m and three others is the built data set
FiveBuilt == nodeInfo = Build(GraphFive.graphData).nodeInfo

\* the indices of the nodes that graphData gives group m
GroupMIndices ==
  Ascending({i \in 0..(Len(nodeInfo) - 1) : nodeInfo[i + 1].group = "m"})

KeptLinks(graphData) ==
  {k \in 1..Len(graphData.links) :
     /\ \E j \in 1..Len(graphData.nodes) :
           graphData.nodes[j].id = graphData.links[k].s
     /\ \E j \in 1..Len(graphData.nodes) :
           graphData.nodes[j].id = graphData.links[k].t}

\* C7: the built edge geometry holds two vertices and two color slots for
\* each link whose source and target are both in the node set; every other
\* link is dropped with a warning and the build still completes.
C7_EdgeCount ==
  output.done =>
    LET kept == Cardinality(KeptLinks(input))
    IN /\ Len(output.built.linePositions) = 2 * kept
       /\ Len(output.built.lineColors) = 2 * kept
       /\ output.built.warnings = Len(input.links) - kept

C7_Witness ==
  /\ output.done
  /\ Len(input.links) = 2
  /\ Cardinality(KeptLinks(input)) = 1
  /\ input.links[1].t = "z"
  /\ Len(output.built.lineColors) = 2

\* C8: the index color stored for node index i, 0 <= i <= 16,777,214, is
\* read back by the picker as i; it is not the reserved all-255 color, and
\* no other index has the same color.
C8_IndexColorRoundTrip ==
  (input.kind = "index" /\ output.stage # "start") =>
    /\ output.color # Background
    /\ \A j \in SampleIndices :
          j # input.i => Uint8Triple(IndexColor(j)) # output.color
    /\ output.stage = "picked" => output.pick.items = <<input.i>>

C8_Witness ==
  /\ input.kind = "index"
  /\ input.i = 16777214
  /\ output.stage = "picked"
  /\ output.pick.items = <<16777214>>

StalePickStep(i) ==
  /\ lastCall'.op \in {"mousemove", "click"}
  /\ lastCall'.items = <<i>>
  /\ ~HasNode(i)
  /\ lastFrame' = lastFrame

\* C11: when a pick yields an index for which no node record exists, the
\* pointer-move handler and the click handler complete without throwing and
\* leave the color buffers, the persistent selection and the hover state
\* unchanged.
C11_StalePickIgnored ==
  [][\A i \in 0..4 :
       StalePickStep(i) =>
         /\ ~lastCall'.threw
         /\ nodeMesh'.color = nodeMesh.color
         /\ connectionMesh'.color = connectionMesh.color
         /\ selected' = selected
         /\ hoverNode' = hoverNode]_vars

\* the pointer-move handler threw on index 4 of the five-node index mesh
\* while the node table is that of the two-node graph
C11_Witness ==
  /\ lastCall.op = "mousemove"
  /\ lastCall.items = <<4>>
  /\ Len(nodeInfo) = 2
  /\ Len(indexScene) = 2
  /\ lastCall.threw

\* the node mesh or the index mesh of call k has been added
MeshesAdded(k) ==
  \/ Includes(graph.nodeMeshes, k)
  \/ \E m \in 1..Len(indexScene) : indexScene[m].call = k
  \/ nodeMesh.call = k

\* C12: for each setData call, its node mesh is added to the displayed graph
\* and its index mesh to the index scene only after every texture load the
\* call started has completed, and the promise the call returned resolves
\* only once both have been added.
C12_AddedAfterAllLoads ==
  [][/\ \A c \in pending' :
          /\ ~MeshesAdded(c.call)'
          /\ promises'[c.call] = "pending"
     /\ \A k \in 1..Len(promises) :
          (promises[k] = "pending" /\ promises'[k] = "resolved") =>
             /\ Includes(graph'.nodeMeshes, k)
             /\ graph'.inScene
             /\ indexScene' # <<>>
             /\ Last(indexScene').call = k
             /\ \A l \in indexSprites' : l.call # k]_vars

\* the same with respect to the sprite texture loads alone, those whose
\* promises setData waits for
AddedAfterSpriteLoads ==
  [][/\ \A c \in pending' :
          /\ ~MeshesAdded(c.call)'
          /\ promises'[c.call] = "pending"
     /\ \A k \in 1..Len(promises) :
          (promises[k] = "pending" /\ promises'[k] = "resolved") =>
             /\ Includes(graph'.nodeMeshes, k)
             /\ graph'.inScene
             /\ indexScene' # <<>>
             /\ Last(indexScene').call = k]_vars

\* the meshes of the first call have been added and its promise is resolved
\* while both of its index sprite textures are still loading
C12_Witness ==
  /\ promises = <<"resolved">>
  /\ pending = {}
  /\ nodeMesh.call = 1
  /\ graph.inScene
  /\ Len(indexScene) = 1
  /\ Cardinality({l \in indexSprites : l.call = 1}) = 2

\* both of two setData calls have settled
BothSettled ==
  /\ nCalls = 2
  /\ pending = {}
  /\ promises = <<"resolved", "resolved">>

\* C13: once two setData calls, the second started while the loads of the
\* first were pending, have both settled in either order, the displayed
\* graph, the index scene (exactly one index mesh), the node mesh used for
\* recoloring and the node records all belong to the second call.
C13_SupersededLoadIgnored ==
  BothSettled =>
    /\ graph.call = 2
    /\ graph.inScene
    /\ graph.nodeMeshes = <<2>>
    /\ Len(indexScene) = 1
    /\ indexScene[1].call = 2
    /\ nodeMesh.call = 2
    /\ Len(nodeMesh.color) = Len(nodeInfo)

\* the first call's loads finished last: its node mesh is the one recolored,
\* and the index scene holds both index meshes
C13_Witness ==
  /\ BothSettled
  /\ Len(indexScene) = 2
  /\ nodeMesh.call = 1
  /\ graph.nodeMeshes = <<2, 1>>
  /\ Len(nodeInfo) = 2
  /\ Len(nodeMesh.color) = 5

\* C14: when a texture load of a setData call has failed, the promise the
\* call returned is rejected, and the data set displayed before the call is
\* still displayed intact.
C14_FailureRejectsAndKeeps ==
  \A c \in pending :
     c.failed =>
       /\ promises[c.call] = "rejected"
       /\ (c.call = 2 /\ promises[1] = "resolved") =>
             /\ graph.call = 1
             /\ graph.inScene
             /\ Len(indexScene) = 1
             /\ indexScene[1].call = 1

\* a texture of the second call has failed after the first data set was
\* displayed: the promise is pending, the scene holds no graph and the index
\* scene is empty
C14_Witness ==
  /\ promises = <<"resolved", "pending">>
  /\ \E c \in pending : c.call = 2 /\ c.failed /\ c.remaining = {}
  /\ ~graph.inScene
  /\ graph.call = 2
  /\ indexScene = <<>>

\* a * runTime = start * runTime + (end - start) * elapsed, componentwise:
\* a is the exact linear interpolation at elapsed / runTime
IsInterpolation(a, start, end, elapsed) ==
  \A i \in 1..3 :
     a[i] * runTime = start[i] * runTime + (end[i] - start[i]) * elapsed

\* whether the controls' update leaves a camera at position alone: its
\* distance from the look-at target is within [minDistance, maxDistance]
WithinDistances(position, target) ==
  /\ LengthSq(Sub(position, target)) >= minDistance * minDistance
  /\ LengthSq(Sub(position, target)) <= maxDistance * maxDistance

C16_FlyEnds ==
  /\ flyTarget.active ~> ~flyTarget.active
  /\ [][/\ (flyTarget.active /\ ~flyTarget'.active) =>
             /\ lastCall'.op = "animate"
             /\ now - flyTarget.startTime >= 750
        /\ (flyTarget.active /\ lastCall'.op = "keypressR") =>
             /\ flyTarget'.active
             /\ flyTarget'.start = camera.position
             /\ flyTarget'.startUp = camera.up
             /\ flyTarget'.startTime = now]_vars

\* a fly-to issued one third into an earlier transition
C16_Witness ==
  /\ lastCall.op = "keypressR"
  /\ flyTarget.active
  /\ flyTarget.startTime = 250
  /\ flyTarget.start = <<0, 0, 1056>>
  /\ camera.position = <<0, 0, 1056>>

C18_DistanceClamped ==
  [][(lastCall'.op = "animate" /\ lastAnimate'.update) =>
       LET d2 == LengthSq(Sub(camera'.position, cameraControls'.target))
       IN /\ d2 >= 50 * 50
          /\ d2 <= 5000 * 5000]_vars

\* a frame has run the controls' update with the camera placed on the
\* target, and the camera is still on the target
C18_Witness ==
  /\ lastCall.op = "animate"
  /\ lastAnimate.update
  /\ ~lastAnimate.fly
  /\ camera.position = <<0, 0, 84>>
  /\ cameraControls.target = <<0, 0, 84>>

\* C20: setCamera places the camera at the given position at once and leaves
\* the fly-to state as it is; an omitted up leaves the camera's up vector
\* unchanged and an omitted target leaves the controls' target unchanged.
C20_SetCameraImmediate ==
  [][lastCall'.op = "setCamera" =>
       /\ ~lastCall'.threw
       /\ camera'.position = input'.position
       /\ flyTarget' = flyTarget
       /\ camera'.up = IF input'.up = <<>> THEN camera.up ELSE input'.up
       /\ cameraControls'.target =
            IF input'.target = <<>> THEN cameraControls.target
            ELSE input'.target]_vars

\* setCamera(position) during a transition, with a non-default up vector and
\* target in place
C20_Witness ==
  /\ lastCall.op = "setCamera"
  /\ input.up = <<>>
  /\ input.target = <<>>
  /\ flyTarget.active
  /\ camera.position = <<0, 0, 84>>
  /\ camera.up = <<729, 1, 0>>
  /\ cameraControls.target = <<0, 0, 84>>

\* the distances the loop of focusOnItems tries
FocusSteps == {defaultCameraDistance + k * cameraStep : k \in 0..60}

\* C19: focusOnItems terminates; with one item the camera distance beyond
\* the mid point is the default 50; with several it is the first of 50, 100,
\* 150, ... at which every item is inside the test camera's frustum or which
\* is at least 3000 minus the mid point's distance from the origin (50 when
\* that bound is 50 or less).  The fly target is the mid point moved by that
\* distance away from the origin, with up (0,1,0) and look-at the origin.
C19_FocusDistance ==
  [][(lastCall'.op = "focusOn" /\ Len(input) > 0) =>
       LET p == midPoint(input)
           l == AxisLength(p)
           d == flyTarget'.end[1] - p[1]
           Stops(c) == isInCamera(input, <<p[1] + c, 0, 0>>)
                       \/ c >= maxCameraRange - l
       IN /\ ~lastCall'.threw
          /\ flyTarget'.active
          /\ flyTarget'.end = <<p[1] + d, 0, 0>>
          /\ flyTarget'.targetUp = <<0, 1, 0>>
          /\ flyTarget'.target = <<0, 0, 0>>
          /\ d \in FocusSteps
          /\ Len(input) = 1 => d = defaultCameraDistance
          /\ Len(input) > 1 =>
                /\ Stops(d)
                /\ \A c \in FocusSteps : c < d => ~Stops(c)
          /\ maxCameraRange - l <= defaultCameraDistance =>
                d = defaultCameraDistance]_vars

\* the nodes at 60 and 5640 are focused on: the mid point is at 2850, the
\* far node is behind the test camera at every step, and the loop stops at
\* the bound 150
C19_Witness ==
  /\ lastCall.op = "focusOn"
  /\ Len(input) = 2
  /\ midPoint(input) = <<2850, 0, 0>>
  /\ flyTarget.active
  /\ flyTarget.end = <<3000, 0, 0>>

-----------------------------------------------------------------------------
(* The node-click callback *)

\* the calls of the node-click callback among the effects of a handler
NodeSelectCalls(log) ==
  SelectSeq(log, LAMBDA e : e.type = "nodeSelect")

\* C21: with a callback registered, a click that picks a single node ends
\* with exactly one call of the callback, made after the persistent select
\* of that node and after its select event, with nodeInfo[node] as argument;
\* a click that picks nothing, a click with no callback registered and a
\* pointer move make no call.
C21_CallbackOnClick ==
  [][/\ ((lastCall'.op = "click" /\ ~lastCall'.threw
          /\ Len(lastCall'.items) = 1 /\ nodeSelectCallback)
         => (/\ Len(NodeSelectCalls(effects')) = 1
             /\ Len(effects') = 2
             /\ effects'[1] = SelectEvent(lastCall'.items)
             /\ effects'[2] = [type |-> "nodeSelect",
                               items |-> <<RecordAt(lastCall'.items[1])>>]
             /\ selected' = lastCall'.items))
      /\ ((lastCall'.op = "click"
          /\ (lastCall'.items = <<>> \/ ~nodeSelectCallback))
         => NodeSelectCalls(effects') = <<>>)
      /\ (lastCall'.op = "mousemove" => NodeSelectCalls(effects') = <<>>)
     ]_vars

\* C21: a click on a node of the loaded graph has called the registered
\* callback with the record of that node
C21_Witness ==
  /\ lastCall.op = "click"
  /\ ~lastCall.threw
  /\ nodeSelectCallback
  /\ pending = {}
  /\ Len(lastCall.items) = 1
  /\ HasNode(lastCall.items[1])
  /\ lastCall.items[1] > 0
  /\ Len(effects) = 2
  /\ effects[2].type = "nodeSelect"
  /\ effects[2].items[1].id = nodeInfo[lastCall.items[1] + 1].id

-----------------------------------------------------------------------------
(* Showing and hiding a node type *)

\* the node ids of the node table
ShownIds(info) == {info[k].id : k \in 1..Len(info)}

\* the nodes of a data set that are not of group g
NodesWithout(d, g) ==
  {n \in Range(DataSets[d].graphData.nodes) : n.g # g}

\* the links of a data set whose endpoints are both nodes not of group g
LinksWithout(d, g) ==
  {k \in 1..Len(DataSets[d].graphData.links) :
     LET l == DataSets[d].graphData.links[k]
     IN \E a, b \in NodesWithout(d, g) : a.id = l.s /\ b.id = l.t}

\* the view shows data set d without group g ("" for no group): the node
\* table holds exactly those nodes, the line buffer two slots for each of
\* those links, every node the edges that leave it, and the textures being
\* loaded are those of the other groups
ShowsWithout(d, g) ==
  /\ ShownIds(nodeInfo') = {n.id : n \in NodesWithout(d, g)}
  /\ Len(nodeInfo') = Cardinality(NodesWithout(d, g))
  /\ \A k \in 1..Len(nodeInfo') : nodeInfo'[k].group # g
  /\ Len(connectionMesh'.color) = 2 * Cardinality(LinksWithout(d, g))
  /\ \A k \in 1..Len(nodeInfo') :
       Len(nodeInfo'[k].to) =
         Cardinality({j \in LinksWithout(d, g) :
                        DataSets[d].graphData.links[j].s = nodeInfo'[k].id})
  /\ LET started == {c \in pending' : c.call = nCalls'}
     IN UNION {{t.group : t \in c.remaining} : c \in started} =
          {t.group : t \in Range(DataSets[d].nodeTextures)} \ {g}

\* C22: with showGenes set and no load under way, toggleNodeType(g) rebuilds
\* the node table, the edges and the texture loads from the data set of the
\* first setData call without group g; the next toggleNodeType call rebuilds
\* them from that complete data set; initialData is set by the first setData
\* call and is never replaced.
C22_ToggleNodeType ==
  [][/\ \A g \in NodeTypes :
          (ToggleNodeType(g) /\ initialData # NoData /\ pending = {})
            => IF showGenes THEN ShowsWithout(initialData.set, g)
               ELSE ShowsWithout(initialData.set, "")
      /\ (initialData # NoData => initialData' = initialData)
      /\ ((initialData = NoData /\ initialData' # NoData)
           => (lastCall'.op = "setData" /\ nCalls = 0
               /\ initialData'.without = ""))
     ]_vars

\* C22: a toggle and its texture load have completed and the five-node data
\* set is shown without its group e: two nodes, no edge
C22_Witness ==
  /\ initialData = [set |-> 1, without |-> ""]
  /\ ~showGenes
  /\ pending = {}
  /\ nCalls >= 2
  /\ nodeMesh.defined
  /\ nodeMesh.call = nCalls
  /\ Len(nodeMesh.color) = 2
  /\ ShownIds(nodeInfo) = {"a", "d"}
  /\ connectionMesh.color = <<>>

-----------------------------------------------------------------------------
(* Node labels *)

\* the depth of a point in front of a camera that is on the positive z or x
\* axis and looks at the origin
DepthFrom(cam, pos) ==
  IF cam[3] # 0 THEN cam[3] - pos[3] ELSE cam[1] - pos[1]

\* the labels of the nodes of the current data set between the near plane
\* and the label distance
LabelsInRange ==
  {[call |-> nCalls, index |-> nodeInfo[k].index] :
     k \in {j \in 1..Len(nodeInfo) :
              /\ DepthFrom(camera.position, nodeInfo[j].pos) >= near
              /\ DepthFrom(camera.position, nodeInfo[j].pos)
                   <= labelDistance}}

\* C23: a render with labels enabled leaves attached exactly the labels of
\* the current data set's nodes inside the frustum whose far plane is the
\* label distance; while labels are turned off no label is attached.
C23_LabelsPerFrame ==
  [][/\ ((Render /\ showLabels) => labels' = LabelsInRange)
      /\ (~showLabels' => labels' = {})
     ]_vars

\* C23: a render has replaced the labels of an earlier data set and camera
\* by the labels of some but not all nodes of the current one
C23_Witness ==
  /\ showLabels
  /\ lastFrame.drawn
  /\ nCalls = 2
  /\ labels # {}
  /\ labels = LabelsInRange
  /\ Cardinality(labels) < Len(nodeInfo)
  /\ \A label \in labels : label.call = 2

-----------------------------------------------------------------------------
(* The needsUpdate flags *)

\* the same mesh before and after the step, with a changed color buffer
Rewritten(before, after) ==
  /\ before.defined
  /\ after.defined
  /\ after.call = before.call
  /\ after.color # before.color

\* C29: a handler that changed an entry of a color buffer returns with the
\* needsUpdate flag of that buffer set, and each render of a mesh in the
\* scene therefore leaves the renderer with the buffer as it is.
C29_WritesSetFlag ==
  [][/\ (Rewritten(nodeMesh, nodeMesh') => nodeMesh'.needsUpdate)
      /\ (Rewritten(connectionMesh, connectionMesh')
            => connectionMesh'.needsUpdate)
      /\ (lastFrame' # lastFrame \/ output' # output) =>
           /\ (output'.node.call = nodeMesh.call /\ nodeMesh.defined)
                => output'.node.color = nodeMesh.color
           /\ (output'.line.call = connectionMesh.call
               /\ connectionMesh.defined)
                => output'.line.color = connectionMesh.color
     ]_vars

\* C29: a click has recolored a node and an edge of meshes the renderer
\* already holds a copy of, and both flags are set
C29_Witness ==
  /\ lastCall.op = "click"
  /\ ~lastCall.threw
  /\ nodeMesh.defined
  /\ output.node.call = nodeMesh.call
  /\ output.node.color # nodeMesh.color
  /\ nodeMesh.needsUpdate
  /\ output.line.call = connectionMesh.call
  /\ output.line.color # connectionMesh.color
  /\ connectionMesh.needsUpdate

-----------------------------------------------------------------------------
(* Connection records and the slots of the line color buffer *)

\* the slots the connection records of a node table address: a from record
\* addresses index and index + 1, a to record index - 1 and index
AddressedSlots(info) ==
  UNION {UNION {{info[n].from[r].index, info[n].from[r].index + 1} :
                  r \in 1..Len(info[n].from)} : n \in 1..Len(info)}
  \cup UNION {UNION {{info[n].to[r].index - 1, info[n].to[r].index} :
                       r \in 1..Len(info[n].to)} : n \in 1..Len(info)}

\* the number of kept links before link k of the list
KeptBefore(graphData, k) ==
  Cardinality({j \in KeptLinks(graphData) : j < k})

\* the connection records of the k-th kept edge address slots 2k and 2k + 1
RecordsAddressOwnSlots(graphData, built) ==
  \A j \in KeptLinks(graphData) :
     LET k == KeptBefore(graphData, j)
         link == graphData.links[j]
     IN /\ \E n \in 1..Len(built.nodeInfo) :
             /\ built.nodeInfo[n].id = link.s
             /\ \E r \in 1..Len(built.nodeInfo[n].to) :
                   built.nodeInfo[n].to[r] =
                     [index |-> 2 * k + 1, neighbor |-> link.t]
        /\ \E n \in 1..Len(built.nodeInfo) :
             /\ built.nodeInfo[n].id = link.t
             /\ \E r \in 1..Len(built.nodeInfo[n].from) :
                   built.nodeInfo[n].from[r] =
                     [index |-> 2 * k, neighbor |-> link.s]

\* C24: for every kept link, being the k-th kept edge, the connection
\* records address exactly the slots 2k and 2k + 1 of the line color buffer,
\* also when earlier links were dropped, and no record addresses a slot
\* outside the buffer.
C24_RecordsAddressOwnSlots ==
  output.done =>
    /\ RecordsAddressOwnSlots(input, output.built)
    /\ AddressedSlots(output.built.nodeInfo) =
         0..(Len(output.built.lineColors) - 1)

\* the same when no link of the list is dropped
C24_WhenNoneDropped ==
  (output.done /\ Cardinality(KeptLinks(input)) = Len(input.links)) =>
    /\ RecordsAddressOwnSlots(input, output.built)
    /\ AddressedSlots(output.built.nodeInfo) =
         0..(Len(output.built.lineColors) - 1)

\* C24: a link is kept after a dropped one and its records address slots
\* beyond the two the buffer has
C24_Witness ==
  /\ output.done
  /\ Len(input.links) = 2
  /\ KeptLinks(input) = {2}
  /\ Len(output.built.lineColors) = 2
  /\ AddressedSlots(output.built.nodeInfo) = {2, 3}

-----------------------------------------------------------------------------
(* Material groups *)

\* the groups are ranges [start, start + count), one per descriptor in
\* sorted order, that tile [0, n) and hold only nodes of their descriptor's
\* group
PartitionsTile(groups, nodes, nodeTextures) ==
  /\ Len(groups) = Len(nodeTextures)
  /\ \A i \in 1..Len(groups) :
       /\ groups[i].start >= 0
       /\ groups[i].count >= 0
       /\ groups[i].materialIndex = i - 1
       /\ groups[i].start = IF i = 1 THEN 0
                            ELSE groups[i - 1].start + groups[i - 1].count
       /\ \A k \in (groups[i].start + 1)..(groups[i].start
                                              + groups[i].count) :
            k <= Len(nodes) /\ nodes[k].g = nodeTextures[i].group
  /\ IF groups = <<>> THEN nodes = <<>>
     ELSE Last(groups).start + Last(groups).count = Len(nodes)

\* every descriptor names a group that has a node, every node's group has a
\* descriptor, and no group has two descriptors
DescriptorsMatch(nodes, nodeTextures) ==
  /\ {nodes[k].g : k \in 1..Len(nodes)} =
       {nodeTextures[k].group : k \in 1..Len(nodeTextures)}
  /\ \A j, k \in 1..Len(nodeTextures) :
       nodeTextures[j].group = nodeTextures[k].group => j = k

\* C25: after a build from any node list and any texture-descriptor list
\* the material groups are ranges [start, start + count), one per descriptor
\* in sorted group order, that tile [0, node count) without gap or overlap,
\* and every node of range i is of the group of the i-th sorted descriptor.
C25_PartitionsTile ==
  output.done =>
    PartitionsTile(output.groups, output.built.nodes,
                   SortTextures(input.nodeTextures))

\* the same for lists in which the descriptors are exactly the groups of
\* the nodes
C25_WhenDescriptorsMatch ==
  (output.done /\ DescriptorsMatch(input.nodes, input.nodeTextures)) =>
    PartitionsTile(output.groups, output.built.nodes,
                   SortTextures(input.nodeTextures))

\* C25: a descriptor of a group without nodes precedes the descriptor of
\* the nodes' group, whose range then starts at NaN
C25_Witness ==
  /\ output.done
  /\ Len(input.nodes) = 1
  /\ input.nodes[1].g = "m"
  /\ input.nodeTextures = <<[group |-> "m"], [group |-> "e"]>>
  /\ output.groups = <<[start |-> 0, count |-> Undefined,
                        materialIndex |-> 0],
                       [start |-> NaN, count |-> 1, materialIndex |-> 1]>>

-----------------------------------------------------------------------------
(* Node indices *)

\* the nodes of group g, in the order of the list
OfGroup(nodes, g) == SelectSeq(nodes, LAMBDA n : n.g = g)

\* C26: after a build of N nodes the record at position i has index i, so
\* the indices are exactly 0..N-1; the id-to-index table maps the id of
\* every node to a position whose record has that id (the last one when an
\* id occurs twice); the nodes are in group order and the nodes of one group
\* keep their input order.
C26_IndicesDense ==
  output.done =>
    LET info == output.built.nodeInfo
        nodes == output.built.nodes
    IN /\ Len(info) = Len(input.nodes)
       /\ \A k \in 1..Len(info) : info[k].index = k - 1
       /\ \A k \in 1..Len(info) :
            /\ info[k].id = nodes[k].id
            /\ info[k].pos = nodes[k].pos
            /\ info[k].group = nodes[k].g
            /\ InNodeIndex(nodes, info[k].id)
            /\ info[NodeIndexOf(nodes, info[k].id) + 1].id = info[k].id
            /\ (\A j \in 1..Len(info) : info[j].id = info[k].id => j = k)
                 => NodeIndexOf(nodes, info[k].id) = k - 1
       /\ \A j, k \in 1..Len(nodes) :
            j < k => localeCompare(nodes[j].g, nodes[k].g) <= 0
       /\ \A g \in {"e", "m"} : OfGroup(nodes, g) = OfGroup(input.nodes, g)

\* C26: three different nodes of one group were built and have the indices
\* 0, 1, 2 in input order
C26_Witness ==
  /\ output.done
  /\ Len(input.nodes) = 3
  /\ \A k \in 1..3 : input.nodes[k].g = "m"
  /\ input.nodes[1] # input.nodes[2]
  /\ input.nodes[3] = input.nodes[1]
  /\ \A k \in 1..3 : output.built.nodeInfo[k].index = k - 1
  /\ \A k \in 1..3 : output.built.nodeInfo[k].pos = input.nodes[k].pos

-----------------------------------------------------------------------------
(* Colors after a persistent select *)

\* the kept links of the data set the node table was built from, in order:
\* edge k of the line buffer (counting from 1) has slots 2k - 1 and 2k of
\* the color sequence
CurrentLinks ==
  LET d == CHOOSE c \in 1..Len(DataSets) :
              Len(DataSets[c].graphData.nodes) = Len(nodeInfo)
      graphData == DataSets[d].graphData
  IN [k \in 1..Cardinality(KeptLinks(graphData)) |->
        graphData.links[CHOOSE j \in KeptLinks(graphData) :
                           KeptBefore(graphData, j) = k - 1]]

\* a persistent select has returned on a completely loaded data set on
\* which no node was ever hovered
SelectOnLoaded ==
  /\ PersistentSelectReturned
  /\ hoverNode = Undefined
  /\ nodeInfo # <<>>
  /\ pending = {}
  /\ nodeMesh.defined
  /\ nodeMesh.call = nCalls
  /\ connectionMesh.call = nCalls

\* the selected nodes have the select color and every other node its base
\* color; the edges with a selected endpoint have the select connection
\* color in both slots and every other edge the default start and end colors
SelectionPainted ==
  /\ \A n \in 0..(Len(nodeInfo) - 1) :
       nodeMesh.color[n + 1] =
         Uint8Triple(IF Includes(selected, n) THEN nodeSelectColor
                     ELSE nodeInfo[n + 1].color)
  /\ \A k \in 1..Len(CurrentLinks) :
       LET incident ==
             \E n \in 0..(Len(nodeInfo) - 1) :
                /\ Includes(selected, n)
                /\ nodeInfo[n + 1].id \in {CurrentLinks[k].s,
                                            CurrentLinks[k].t}
       IN /\ connectionMesh.color[2 * k - 1] =
               Uint8Triple(IF incident THEN connectionSelectColor
                           ELSE connectionStartColor)
          /\ connectionMesh.color[2 * k] =
               Uint8Triple(IF incident THEN connectionSelectColor
                           ELSE connectionEndColor)

\* C27: after a persistent select(S) with no hover active every node of S
\* has the select color and its incident edges the select connection color
\* in both slots; every other node, the previously selected ones included,
\* has its base color, and every edge not incident to S the default start
\* and end colors.
C27_SelectPaints ==
  SelectOnLoaded => SelectionPainted

\* the same on the data set in which no link is dropped
C27_WhenNoneDropped ==
  (SelectOnLoaded /\ Len(nodeInfo) = 2) => SelectionPainted

\* C27: node d of the five-node data set is selected and its edge to node c,
\* the second edge of the line buffer, still has the default colors
C27_Witness ==
  /\ SelectOnLoaded
  /\ FiveBuilt
  /\ Includes(selected, 4)
  /\ nodeInfo[5].id = "d"
  /\ CurrentLinks[2] = Link("d", "c")
  /\ connectionMesh.color[3] = Uint8Triple(connectionStartColor)
  /\ connectionMesh.color[4] = Uint8Triple(connectionEndColor)

-----------------------------------------------------------------------------
(* The hover color *)

\* the nodes whose entry of the node color buffer is the hover color
HoverPainted ==
  {n \in 0..(Len(nodeMesh.color) - 1) :
     nodeMesh.color[n + 1] = Uint8Triple(hoverSelectColor)}

\* only hovers have recolored the completely loaded data set
OnlyHovered ==
  /\ nodeInfo # <<>>
  /\ pending = {}
  /\ nCalls = 1
  /\ nodeMesh.defined
  /\ selected = <<>>

\* C28: after any sequence of hover calls, node index 0 included, at most
\* one node is painted with the hover color.
C28_OneHoverPainted ==
  OnlyHovered => Cardinality(HoverPainted) <= 1

\* the same on the hovered nodes other than node 0
C28_WhenNotNodeZero ==
  (OnlyHovered /\ nodeMesh.color[1] # Uint8Triple(hoverSelectColor))
    => Cardinality(HoverPainted) <= 1

\* C28: a pointer move over node 1 has returned after one over node 0, and
\* both nodes show the hover color
C28_Witness ==
  /\ OnlyHovered
  /\ HoverReturned
  /\ lastCall.items = <<1>>
  /\ hoverNode = 1
  /\ HoverPainted = {0, 1}

-----------------------------------------------------------------------------
(* The pointer listeners of the camera controls *)

\* the accumulators a pointer move may write in a state
ActiveAccumulators(state) ==
  IF state = ControlsState.ROTATE THEN {"movePrev", "moveCurr"}
  ELSE IF state = ControlsState.ZOOM THEN {"zoomEnd"}
  ELSE IF state = ControlsState.PAN THEN {"panEnd"}
  ELSE {}

\* C30: a pointer-down while the controls are idle on button 0, 1 or 2
\* enters ROTATE, ZOOM or PAN; a pointer-move leaves the state and
\* everything but the accumulators of the active action as they are, and
\* changes nothing while idle; a pointer-up leaves the controls idle and
\* dispatches the end event.
C30_PointerStates ==
  [][/\ ((lastCall'.op = "mousedown"
          /\ cameraControls.state = ControlsState.NONE
          /\ lastCall'.items[1] \in 0..2)
         => (/\ cameraControls'.state = lastCall'.items[1]
             /\ lastCall'.items[1] = 0 =>
                  cameraControls'.state = ControlsState.ROTATE
             /\ lastCall'.items[1] = 1 =>
                  cameraControls'.state = ControlsState.ZOOM
             /\ lastCall'.items[1] = 2 =>
                  cameraControls'.state = ControlsState.PAN))
      /\ (lastCall'.op = "controlsMousemove"
         => (/\ \A f \in DOMAIN cameraControls :
                  cameraControls'[f] # cameraControls[f]
                    => f \in ActiveAccumulators(cameraControls.state)
             /\ camera' = camera
             /\ effects' = <<>>
             /\ cameraControls.state = ControlsState.ROTATE
                  => cameraControls'.movePrev = cameraControls.moveCurr))
      /\ (lastCall'.op = "mouseup"
         => (/\ cameraControls'.state = ControlsState.NONE
             /\ effects' = <<[type |-> "end"]>>))
     ]_vars

\* C30: the pointer has moved during a zoom started with the middle button:
\* the zoom end differs from the zoom start and the other accumulators are
\* as the constructor left them
C30_Witness ==
  /\ lastCall.op = "controlsMousemove"
  /\ cameraControls.state = ControlsState.ZOOM
  /\ cameraControls.zoomEnd # cameraControls.zoomStart
  /\ cameraControls.zoomEnd = <<1, 1>>
  /\ cameraControls.panEnd = <<0, 0>>
  /\ cameraControls.moveCurr = <<0, 0>>

-----------------------------------------------------------------------------
(* The touch listeners of the camera controls *)

\* C31: a touchstart with one contact on the screen enters TOUCH_ROTATE and
\* one with two or more enters TOUCH_ZOOM_PAN; a touchend that leaves no
\* contact returns the controls to idle and one that leaves exactly one
\* contact enters TOUCH_ROTATE; so with touch input alone the controls are
\* idle whenever no contact is on the screen.
C31_TouchStates ==
  /\ [](input = <<>> => cameraControls.state = ControlsState.NONE)
  /\ [][/\ (lastCall'.op = "touchstart" =>
              cameraControls'.state =
                IF Len(input') = 1 THEN ControlsState.TOUCH_ROTATE
                ELSE ControlsState.TOUCH_ZOOM_PAN)
         /\ ((lastCall'.op = "touchend" /\ Len(input') = 0) =>
              cameraControls'.state = ControlsState.NONE)
         /\ ((lastCall'.op = "touchend" /\ Len(input') = 1) =>
              cameraControls'.state = ControlsState.TOUCH_ROTATE)
        ]_vars

\* C31: the last contact has been lifted after a two-finger gesture that
\* changed the distance between the contacts, and the controls are idle
C31_Witness ==
  /\ lastCall.op = "touchend"
  /\ input = <<>>
  /\ cameraControls.state = ControlsState.NONE
  /\ cameraControls.touchZoomDistanceStart = 24
  /\ cameraControls.touchZoomDistanceEnd = 40

-----------------------------------------------------------------------------
(* The wheel listener of the camera controls *)

\* the start event, the end event and the call of the camera-update callback
StartEvent == [type |-> "start"]
EndEvent == [type |-> "end"]
UpdateCameraCall == [type |-> "updateCamera", position |-> camera.position]

\* C32: the start and end events the wheel handling dispatches alternate,
\* beginning with a start; a wheel event dispatches a start exactly when it
\* is the first since the viewer was created or since the last end; a
\* timer dispatches an end, and with it calls the registered camera-update
\* callback, exactly when no wheel event was received since the timer was
\* set; nothing else is dispatched, and at most one timer is outstanding,
\* exactly while a burst is under way.
C32_OneStartOneEndPerBurst ==
  /\ [](/\ \A i \in 1..Len(output) :
              output[i].type = IF i % 2 = 1 THEN "start" ELSE "end"
        /\ cameraControls.timeouts = (Len(output) % 2))
  /\ [][/\ (lastCall'.op = "mousewheel" =>
              effects' = IF Len(output) % 2 = 0 THEN <<StartEvent>>
                         ELSE <<>>)
         /\ (lastCall'.op = "wheelTimeout" =>
              effects' = IF input > 0 THEN <<>>
                         ELSE IF updateCameraCallback
                         THEN <<EndEvent, UpdateCameraCall>>
                         ELSE <<EndEvent>>)
        ]_<<cameraControls, input, output>>

\* C32: a second burst has ended after a timer that found new wheel events
\* and a later one that found none, and the callback has been called
C32_Witness ==
  /\ lastCall.op = "wheelTimeout"
  /\ output = <<StartEvent, EndEvent, StartEvent, EndEvent>>
  /\ effects = <<EndEvent, UpdateCameraCall>>
  /\ cameraControls.zoomStart = <<0, 1>>
  /\ cameraControls.marker

-----------------------------------------------------------------------------
(* The edges of selected nodes under hover *)

\* a pointer move has returned on a completely loaded data set
HoverOnLoaded ==
  /\ HoverReturned
  /\ nodeInfo # <<>>
  /\ pending = {}
  /\ nodeMesh.defined
  /\ nodeMesh.call = nCalls
  /\ connectionMesh.call = nCalls

\* the ids of the nodes with an index in items
IdsOf(items) ==
  {nodeInfo[items[k] + 1].id : k \in {j \in 1..Len(items) : HasNode(items[j])}}

\* C33: after a pointer move, every edge that has a persistently selected
\* node as an endpoint and is not incident to the node now under the
\* pointer shows the select connection color in both of its slots.
C33_SelectedEdgesKeepColor ==
  HoverOnLoaded =>
    \A k \in 1..Len(CurrentLinks) :
       LET ends == {CurrentLinks[k].s, CurrentLinks[k].t}
       IN (ends \cap IdsOf(selected) # {} /\ ends \cap IdsOf(lastCall.items) = {})
            => /\ connectionMesh.color[2 * k - 1] =
                    Uint8Triple(connectionSelectColor)
               /\ connectionMesh.color[2 * k] =
                    Uint8Triple(connectionSelectColor)

\* C33: on the two-node data set node 0 is selected, the pointer has left
\* its neighbour node 1, and the edge between them has the default colors
C33_Witness ==
  /\ HoverOnLoaded
  /\ Len(nodeInfo) = 2
  /\ selected = <<0>>
  /\ lastCall.items = <<>>
  /\ hoverNode = 1
  /\ CurrentLinks = <<Link("p", "q")>>
  /\ connectionMesh.color = <<Uint8Triple(connectionStartColor),
                              Uint8Triple(connectionEndColor)>>

-----------------------------------------------------------------------------
(* The node colors and the selection across setData *)

\* no texture load is outstanding, the node mesh is the one of the latest
\* setData call and no node was hovered
LoadedNoHover ==
  /\ pending = {}
  /\ nodeInfo # <<>>
  /\ nodeMesh.defined
  /\ nodeMesh.call = nCalls
  /\ hoverNode = Undefined

\* C34: whenever no texture load is pending and no node is hovered, node i
\* shows the select color if and only if i is in the persistent selection
\* and otherwise its base color, and every selected index is an index of
\* the current data set.
C34_ColorsAgreeWithSelection ==
  LoadedNoHover =>
    /\ \A n \in 0..(Len(nodeInfo) - 1) :
         nodeMesh.color[n + 1] =
           Uint8Triple(IF Includes(selected, n) THEN nodeSelectColor
                       ELSE nodeInfo[n + 1].color)
    /\ \A k \in 1..Len(selected) : HasNode(selected[k])

\* C34: node 0 was selected by a click, a second setData call has rebuilt
\* the data set and its textures have loaded: index 0 is still in the
\* selection and node 0 shows its base color
C34_Witness ==
  /\ LoadedNoHover
  /\ nCalls = 2
  /\ lastCall.op = "textureLoaded"
  /\ selected = <<0>>
  /\ nodeMesh.color[1] = Uint8Triple(nodeInfo[1].color)
  /\ nodeMesh.color[1] # Uint8Triple(nodeSelectColor)

-----------------------------------------------------------------------------
(* The materials of the node mesh and the index mesh *)

\* the groups of the sorted texture descriptors of the first setData call
SortedGroups ==
  LET sorted == SortTextures(Data(initialData).nodeTextures)
  IN [i \in 1..Len(sorted) |-> sorted[i].group]

\* C35: whatever the order in which the texture loads of a setData call
\* complete, material i of the node mesh and of the index mesh built by the
\* call is the one created from the i-th texture descriptor in sorted group
\* order (stated for the first call, whose data set initialData names).
C35_MaterialsInGroupOrder ==
  (Len(promises) >= 1 /\ promises[1] = "resolved")
    => nodeMaterials(1) = SortedGroups

\* C35: the first call was given the five-node data set, the texture of
\* group m loaded before that of group e, and the meshes were built with
\* the material of m for partition 0, the nodes of group e
C35_Witness ==
  /\ Len(promises) >= 1
  /\ promises[1] = "resolved"
  /\ initialData.set = 1
  /\ SortedGroups = <<"e", "m">>
  /\ nodeMaterials(1) = <<"m", "e">>
  /\ nodeMesh.defined

-----------------------------------------------------------------------------
(* A click that picks nothing *)

C36_AlsoWhenThrown ==
  [][(selected # <<>> /\ selected' = <<>>)
       => \/ lastCall'.op = "keypress"
          \/ lastCall'.op = "selectBy" /\ lastCall'.items = <<>>]_vars

-----------------------------------------------------------------------------
(* The key listeners of the camera controls *)

\* C37: with key input alone, a control key pressed while the controls are
\* idle enters ROTATE, ZOOM or PAN; the controls are idle again whenever no
\* key is held, however often the held key repeated; and the controls keep
\* the one keydown listener they registered.
C37_KeyReleaseRestores ==
  /\ [](input = <<>> => cameraControls.state = ControlsState.NONE)
  /\ [](cameraControls.keydownListeners = 1)
  /\ [][(lastCall'.op = "keydown" /\ input = <<>>
           /\ cameraControls.state = ControlsState.NONE)
          => cameraControls'.state =
               IF lastCall'.items = <<keys[1]>> THEN ControlsState.ROTATE
               ELSE IF lastCall'.items = <<keys[2]>> THEN ControlsState.ZOOM
               ELSE IF lastCall'.items = <<keys[3]>> THEN ControlsState.PAN
               ELSE ControlsState.NONE]_vars

\* the release of a key that did not repeat, pressed while the controls
\* had the one listener of the constructor
C37_FirstPressWithoutRepeat ==
  [][(lastCall'.op = "keyup" /\ cameraControls.keydownListeners = 1
       /\ lastCall.op = "keydown"
       /\ cameraControls.prevState = ControlsState.NONE)
      => cameraControls'.state = ControlsState.NONE]_vars

\* C37: the key A was pressed while the controls were idle, repeated and
\* was released: the controls are left in ROTATE with two keydown listeners
C37_Witness ==
  /\ lastCall.op = "keyup"
  /\ input = <<>>
  /\ cameraControls.state = ControlsState.ROTATE
  /\ cameraControls.prevState = ControlsState.ROTATE
  /\ cameraControls.keydownListeners = 2

-----------------------------------------------------------------------------
(* The states of the camera controls *)

\* the six states
ControlStates ==
  {ControlsState.NONE, ControlsState.ROTATE, ControlsState.ZOOM,
   ControlsState.PAN, ControlsState.TOUCH_ROTATE,
   ControlsState.TOUCH_ZOOM_PAN}

TouchStates == {ControlsState.TOUCH_ROTATE, ControlsState.TOUCH_ZOOM_PAN}

\* C38: the state of the camera controls is always one of the six states,
\* and no pointer-down, whatever its button, puts the controls into one of
\* the two touch states: a step that enters a touch state is a touch event.
C38_TouchStatesOnlyByTouch ==
  /\ [](cameraControls.state \in ControlStates)
  /\ [][(cameraControls'.state \in TouchStates
           /\ cameraControls'.state # cameraControls.state)
          => lastCall'.op \in {"touchstart", "touchend"}]_vars

\* C38: a pointer-down with button 3 on idle controls has left them in
\* TOUCH_ROTATE
C38_Witness ==
  /\ lastCall.op = "mousedown"
  /\ lastCall.items[1] = 3
  /\ cameraControls.state = ControlsState.TOUCH_ROTATE
  /\ cameraControls.prevState = ControlsState.NONE

-----------------------------------------------------------------------------
(* The camera reset *)

\* the frame that completes the fly-to transition of a camera reset
ResetCompletes ==
  /\ flyTarget.active
  /\ ~flyTarget'.active
  /\ flyTarget.end = cameraDefault.position

\* C39: when the fly-to transition of the camera reset completes, the
\* camera position is (0, 0, 3000), the up vector (0, 1, 0) and the look-at
\* target of the controls the world origin, as when the viewer was created.
C39_ResetRestoresCamera ==
  [][ResetCompletes
       => /\ camera'.position = <<0, 0, 3000>>
          /\ camera'.up = <<0, 1, 0>>
          /\ cameraControls'.target = <<0, 0, 0>>]_vars

\* the same of the position and the up vector alone
C39_PositionAndUp ==
  [][ResetCompletes
       => /\ camera'.position = <<0, 0, 3000>>
          /\ camera'.up = <<0, 1, 0>>]_vars

\* C39: the frame that completed a camera reset has run; the camera is at
\* its first position and the controls look at (0, 1, 0)
C39_Witness ==
  /\ lastCall.op = "animate"
  /\ lastAnimate.fly
  /\ ~flyTarget.active
  /\ flyTarget.end = <<0, 0, 3000>>
  /\ camera.position = <<0, 0, 3000>>
  /\ camera.up = <<0, 1, 0>>
  /\ cameraControls.target = <<0, 1, 0>>

-----------------------------------------------------------------------------
(* dispose() and the animation loop *)

\* a frame ran the animate callback
AnimateRan == lastCall'.op = "animate" /\ animationId' # animationId

\* C40: after dispose() has returned, whatever frame requests were made
\* before it, no request of the animate callback is outstanding and the
\* animate callback never runs again.
C40_DisposeStopsLoop ==
  /\ [](disposed => \A r \in frameRequests : r.callback # "animate")
  /\ [][disposed => ~AnimateRan]_vars

\* dispose() stops the loop when the stored id is the request of animate
C40_WhenIdIsOfAnimate ==
  [][(~disposed /\ disposed'
       /\ [id |-> animationId, callback |-> "animate"] \in frameRequests)
      => \A r \in frameRequests' : r.callback # "animate"]_vars

\* no render callback changes anything after dispose()
C40_RenderAfterDisposeIsInert ==
  [][(disposed /\ frameRequests' \subseteq frameRequests
       /\ frameRequests' # frameRequests)
      => UNCHANGED <<camera, cameraControls, lastFrame, nodeMesh,
                     connectionMesh, labels, effects, lastCall>>]_vars

\* C40: the pointer moved between the last frame and dispose(), which
\* cancelled the render request of the move; the animate callback has run
\* twice since and its next request is outstanding
C40_Witness ==
  /\ disposed
  /\ lastCall.op = "animate"
  /\ lastAnimate.render
  /\ animationId = 4
  /\ frameRequests = {[id |-> 4, callback |-> "animate"]}

====
